---- MODULE Spec2Model ----
(***************************************************************************)
(* Verification model of the gym bot: the planning reconciler              *)
(* (PlanningManager), the reminder correlator (TrashReminderService), the  *)
(* cron timers both own, and the startup sequence (main, registerEvents).  *)
(*                                                                         *)
(* Every await of the source is one step: an action performs the platform  *)
(* call that was pending, runs the synchronous code up to the next await   *)
(* and leaves the handler parked on that call.  guild.channels.cache is    *)
(* the variable channels; discord.js updates it when create/delete         *)
(* resolve, so the call and the cache update are one step.                 *)
(***************************************************************************)
EXTENDS Integers, Sequences, FiniteSets, TLC

(***************************************************************************)
(* Bounds of the model                                                     *)
(***************************************************************************)
\* largest configured window size (PLANNING_DAYS_AHEAD) that is explored
MaxDaysAhead == 2
\* number of midnights the clock may pass
MaxDayAdvance == 1
\* largest number of pre-existing channels under the planning category
MaxInitChannels == 2
\* number of reactions members may add
MaxReacts == 4
\* number of messages members may post into planning channels
MaxPosts == 1
\* number of platform calls that may fail
MaxFailures == 1
\* number of channels an administrator may remove by hand
MaxAdmin == 1
\* the windows 0..MaxSmallWindow are computed one by one
MaxSmallWindow == 40
\* the longest window computed
MaxLongWindow == 1828

(***************************************************************************)
(* Calendar: what new Date(), setDate and toLocaleDateString('fr-FR')      *)
(* compute.  A day is the number of days since 1 January 2026.             *)
(***************************************************************************)
\* the first day of the model: Wednesday 30 September 2026, so that the window
\* crosses a month boundary and both reminder weekdays are reached
FirstDay == 272

MonthLen == <<31, 28, 31, 30, 31, 30, 31, 31, 30, 31, 30, 31>>

WeekdayNames == <<"dimanche", "lundi", "mardi", "mercredi", "jeudi", "vendredi", "samedi">>

\* (the accents of février, août, décembre are dropped: names are opaque tokens)
MonthNames == <<"janvier", "fevrier", "mars", "avril", "mai", "juin", "juillet",
                "aout", "septembre", "octobre", "novembre", "decembre">>

\* Date.getDay(): 0 = dimanche; 1 January 2026 is a Thursday
GetDay(n) == (4 + n) % 7

IsLeap(y) == (y % 4 = 0 /\ y % 100 # 0) \/ y % 400 = 0

\* the year of day n and the day within that year, counting from year y
RECURSIVE YearDay(_, _)
YearDay(n, y) ==
    LET len == IF IsLeap(y) THEN 366 ELSE 365
    IN IF n < len THEN [year |-> y, doy |-> n] ELSE YearDay(n - len, y + 1)

RECURSIVE MonthDay(_, _)
MonthDay(yd, m) ==
    LET len == IF m = 2 /\ IsLeap(yd.year) THEN 29 ELSE MonthLen[m]
    IN IF yd.doy < len THEN [month |-> m, day |-> yd.doy + 1]
       ELSE MonthDay([yd EXCEPT !.doy = @ - len], m + 1)

\* the calendar date of day n
DateOf(n) == MonthDay(YearDay(n, 2026), 1)

\* one upper-case character class is enough for the locale's output, which is
\* already lower case; toLowerCase maps the capitalised names to these
LowerTok(t) ==
    CASE t = "Lundi" -> "lundi"
      [] t = "Mardi" -> "mardi"
      [] t = "Mercredi" -> "mercredi"
      [] t = "Jeudi" -> "jeudi"
      [] OTHER -> t

ToLowerCase(s) == [i \in DOMAIN s |-> LowerTok(s[i])]

\* a label of day and month alone
DayLabelNoWeekday(n) ==
    ToLowerCase(<<ToString(DateOf(n).day), " ", MonthNames[DateOf(n).month]>>)

\* date.toLocaleDateString('fr-FR', {weekday:'long', day:'numeric', month:'long'})
\* .toLowerCase(): the label as a sequence of tokens, blanks included
DayLabel(n) ==
    ToLowerCase(<<WeekdayNames[GetDay(n) + 1], " ", ToString(DateOf(n).day), " ",
                  MonthNames[DateOf(n).month]>>)

IsSpace(t) == t \in {" ", "\t"}

\* dayLabel.replace(/\s+/g, '-'): every run of whitespace becomes one hyphen
RECURSIVE ReplaceSpaces(_)
ReplaceSpaces(s) ==
    IF s = <<>> THEN <<>>
    ELSE IF IsSpace(Head(s))
         THEN IF Len(s) > 1 /\ IsSpace(s[2])
              THEN ReplaceSpaces(Tail(s))
              ELSE <<"-">> \o ReplaceSpaces(Tail(s))
         ELSE <<Head(s)>> \o ReplaceSpaces(Tail(s))

\* 1 March 2027: five years later the date falls on the same weekday
LeapStart == 365 + 31 + 28

SlugOf == [n \in (FirstDay - 1)..(LeapStart + MaxLongWindow + MaxDayAdvance + MaxDaysAhead) |->
              ReplaceSpaces(DayLabel(n))]

Slug(n) == SlugOf[n]

\* the window starting tomorrow
DesiredChannelsFromTomorrow(day, n) ==
    [i \in 1..n |-> [name |-> Slug(day + i), label |-> DayLabel(day + i)]]

\* desiredChannels of syncPlanning: one {name, label} per i in [0, daysAhead)
DesiredChannels(day, n) ==
    [i \in 1..n |-> [name |-> Slug(day + i - 1), label |-> DayLabel(day + i - 1)]]

\* the allowed names with the window starting tomorrow
AllowedNamesFromTomorrow(day, n) == {Slug(day + i) : i \in 1..n}

\* allowedNames of syncPlanning
AllowedNames(day, n) == {Slug(day + i) : i \in 0..(n - 1)}

(***************************************************************************)
(* Configuration (config/env.ts) and the accounts of the guild             *)
(***************************************************************************)
CategoryName == <<"Planning">>

TrashChannelName == <<"rappels-poubelles">>

AssoCategoryName == <<"Fonctionnement asso">>

\* the slots written without blanks
planningTimeSlotsCompact ==
    <<"08:00-10:00", "10:00-12:00", "12:00-14:00", "14:00-16:00",
      "16:00-18:00", "18:00-20:00", "20:00-22:00", "22:00-00:00">>

planningTimeSlots ==
    <<"08:00 - 10:00", "10:00 - 12:00", "12:00 - 14:00", "14:00 - 16:00",
      "16:00 - 18:00", "18:00 - 20:00", "20:00 - 22:00", "22:00 - 00:00">>

relevantTimeSlots == <<"18:00 - 20:00", "20:00 - 22:00", "22:00 - 00:00">>

reminderConfigs ==
    <<[type |-> "noir", dayOfWeek |-> 3, hour |-> 20, timeSlots |-> relevantTimeSlots],
      [type |-> "jaune", dayOfWeek |-> 4, hour |-> 20, timeSlots |-> relevantTimeSlots]>>

\* the affirmative reactions of a message are the set of accounts holding it
Self == "bot"

Humans == {"A", "B", "C"}

OtherBots == {"musicbot"}

Accounts == Humans \cup OtherBots \cup {Self}

\* user.bot
IsBot(u) == u \in OtherBots \cup {Self}

\* the order in which a fetched user collection is iterated
AccountOrder == <<"A", "B", "C", "bot", "musicbot">>

(***************************************************************************)
(* State                                                                   *)
(***************************************************************************)
VARIABLES
    today,          \* the wall clock: the current day
    daysAhead,      \* config.planning.daysAhead
    channels,       \* guild.channels.cache: set of [id, name, type, parent]
    messages,       \* channel id -> sequence of messages, oldest first
    nextId,         \* next snowflake id
    categoryId,     \* PlanningManager.categoryId (0 = null)
    runs,           \* the reconcile invocations in flight, one per entry point
    lastRun,        \* ghost: how the latest finished reconcile run ended
    log,            \* what logger.error / logger.warn recorded
    maintenanceTask,\* PlanningManager.maintenanceTask (0 = null)
    reminderTasks,  \* TrashReminderService.reminderTasks: sequence of task ids
    cronTasks,      \* the node-cron tasks that are scheduled: id -> [kind, expr]
    channelId,      \* TrashReminderService.channelId (0 = null)
    trashInit,      \* position of TrashReminderService.initialize()
    firedOn,        \* the day each reminder rule fired last
    boot,           \* position of main() and of the ready listener
    fires,          \* the reminder fires in flight, one per rule
    nReacts,        \* ghost: reactions added by accounts so far
    nPosts,         \* ghost: messages posted by members so far
    nFails,         \* ghost: platform calls that failed so far
    nAdmin,         \* ghost: channels an administrator removed so far
    build,          \* which artefact of GymStatusManager runs: the source or the compiled file
    status,         \* GymStatusManager.status
    lastActionBy,   \* GymStatusManager.lastActionBy ("null" = null)
    statusMessage,  \* GymStatusManager.statusMessage: id of the tracked message (0 = null)
    statusChan,     \* the messages of the status channel: set of [id, content]
    statusSeq,      \* next message id of the status channel
    nUpdates,       \* ghost: calls of GymStatusManager.updateStatus so far
    twilio,         \* GateService: the Twilio client and configuration ("none" = null)
    sms,            \* the SMS sends attempted so far: set of [to, ok, seq, k]
    portalLog,      \* the lines of logs/portail.log
    guildRoles,     \* the names of the roles of the guild
    granted,        \* the members who hold the Membre role
    signatures,     \* the lines of the rules acceptance log
    inter,          \* the interaction handlers in flight, one per slot
    nInter          \* ghost: interactions received so far

platformVars == <<today, daysAhead, channels, messages, nextId>>

planningVars == <<categoryId, runs, lastRun>>

timerVars == <<maintenanceTask, reminderTasks, cronTasks>>

reminderVars == <<channelId, trashInit, firedOn, fires>>

envVars == <<nReacts, nPosts, nFails, nAdmin>>

statusVars == <<build, status, lastActionBy, statusMessage, statusChan, statusSeq, nUpdates>>

gateVars == <<twilio, sms, portalLog>>

rulesVars == <<guildRoles, granted, signatures>>

svcVars == <<statusVars, gateVars, rulesVars, inter, nInter>>

vars == <<platformVars, planningVars, timerVars, reminderVars, envVars, log, boot, svcVars>>

(***************************************************************************)
(* Helpers over the channel cache                                          *)
(***************************************************************************)
Ids(chs) == {c.id : c \in chs}

ChannelById(chs, id) == CHOOSE c \in chs : c.id = id

\* Collection.find / values() iterate in insertion order, which is id order
RECURSIVE SortById(_)
SortById(S) ==
    IF S = {} THEN <<>>
    ELSE LET m == CHOOSE c \in S : \A d \in S : c.id <= d.id
         IN <<m>> \o SortById(S \ {m})

Range(s) == {s[i] : i \in DOMAIN s}

\* ensureCategory / getUsersFromPlanning: cache.find(GuildCategory named
\* config.planning.categoryName); 0 when there is none
FindCategory(chs) ==
    LET cs == {c \in chs : c.type = "category" /\ c.name = CategoryName}
    IN IF cs = {} THEN 0 ELSE SortById(cs)[1].id

\* the filter without the test of the type
PlanningChildren(chs, cat) == {c \in chs : c.parent = cat}

\* syncPlanning: cache.filter(parentId === category.id && type === GuildText)
PlanningTexts(chs, cat) == {c \in chs : c.parent = cat /\ c.type = "text"}

\* a lookup that finds nothing
ExistingChannelNever(chs, cat, name) == FALSE

\* the lookup without the test of the parent
ExistingChannelAnyParent(chs, cat, name) ==
    \E c \in chs : c.name = name /\ c.type = "text"

\* syncPlanning: cache.find(name === channelName && parentId === category.id
\* && type === GuildText) finds something
ExistingChannel(chs, cat, name) ==
    \E c \in chs : c.name = name /\ c.parent = cat /\ c.type = "text"

(***************************************************************************)
(* Messages                                                                *)
(***************************************************************************)
NewMessage(content, embed, author, mentions) ==
    [content |-> content, embed |-> embed, author |-> author, reacts |-> {},
     mentions |-> mentions]

\* initializePlanningChannel: the header embed (title `Planning pour ${dayLabel}`)
HeaderMessage(label) == NewMessage("", <<"Planning pour">> \o label, Self, <<>>)

\* the slot sent as the title of an embed, like the header
SlotEmbed(slot) == NewMessage("", <<slot>>, Self, <<>>)

\* initializePlanningChannel: channel.send(slot)
SlotMessage(slot) == NewMessage(slot, <<>>, Self, <<>>)

Append2(msgs, id, m) == [msgs EXCEPT ![id] = Append(@, m)]

\* message.react: the account joins the holders of the affirmative reaction
AddReact(msgs, id, idx, who) ==
    [msgs EXCEPT ![id] = [@ EXCEPT ![idx] = [@ EXCEPT !.reacts = @ \cup {who}]]]

DropChannel(msgs, id) == [c \in (DOMAIN msgs) \ {id} |-> msgs[c]]

AddChannel(msgs, id) == [c \in (DOMAIN msgs) \cup {id} |-> IF c \in DOMAIN msgs THEN msgs[c] ELSE <<>>]

(***************************************************************************)
(* Channel Reconciler: PlanningManager                                     *)
(***************************************************************************)
\* the entry points that run the reconciler: initialize(), syncPlanningCommand()
\* and the callback of the maintenance task
Entries == {"init", "setup", "timer"}

IdleRun ==
    [pc |-> "idle", today |-> 0, category |-> 0, desired |-> <<>>, snapshot |-> <<>>,
     i |-> 0, j |-> 0, cur |-> 0, k |-> 0, msg |-> 0,
     \* ghosts: what the run found and did
     startChannels |-> {}, startMessages |-> <<>>, deleted |-> {}, created |-> {},
     posts |-> 0, afterOk |-> FALSE, afterDay |-> 0, afterChanged |-> FALSE,
     overlapped |-> FALSE, hadTask |-> FALSE]

Pending == {"fetchGuild", "createCategory", "delete", "createChannel",
            "sendHeader", "sendSlot", "react"}

Active(e) == runs[e].pc \in Pending

NoActiveRun == \A e \in Entries : ~Active(e)

\* second loop of syncPlanning from desired[j] on: stop at the first slug
\* without an existing channel (the create call is issued), or finish
RECURSIVE ScanCreate(_, _, _)
ScanCreate(r, chs, j) ==
    IF j > Len(r.desired) THEN [r EXCEPT !.pc = "done", !.j = j]
    ELSE IF ExistingChannel(chs, r.category, r.desired[j].name)
         THEN ScanCreate(r, chs, j + 1)
         ELSE [r EXCEPT !.pc = "createChannel", !.j = j]

\* the first loop left out
ScanDeleteSkipped(r, chs, i) == ScanCreate([r EXCEPT !.i = i], chs, 1)

\* first loop of syncPlanning from snapshot[i] on: stop at the first channel
\* whose name is not allowed (its delete call is issued), or go on to the
\* second loop
RECURSIVE ScanDelete(_, _, _)
ScanDelete(r, chs, i) ==
    IF i > Len(r.snapshot) THEN ScanCreate([r EXCEPT !.i = i], chs, 1)
    ELSE IF r.snapshot[i].name \notin AllowedNames(r.today, Len(r.desired))
         THEN [r EXCEPT !.pc = "delete", !.i = i]
         ELSE ScanDelete(r, chs, i + 1)

\* syncPlanning up to its first await
BeginSync(r, cat, chs, msgs, day, n) ==
    ScanDelete([r EXCEPT !.today = day, !.category = cat,
                         !.desired = DesiredChannels(day, n),
                         !.snapshot = SortById(PlanningTexts(chs, cat)),
                         !.startChannels = chs, !.startMessages = msgs],
               chs, 1)

\* the smallest id no scheduled task has
FreshTask(tasks) == CHOOSE t \in 1..(Cardinality(DOMAIN tasks) + 1) : t \notin DOMAIN tasks

\* cron.schedule(expr, callback, {timezone}): the task is scheduled at once
CronSchedule(tasks, id, kind, expr) ==
    [t \in (DOMAIN tasks) \cup {id} |-> IF t = id THEN [kind |-> kind, expr |-> expr] ELSE tasks[t]]

\* task.stop()
CronStop(tasks, id) == [t \in (DOMAIN tasks) \ {id} |-> tasks[t]]

\* config.planning.maintenanceCron, '*/1 11-20 * * *': every minute of the
\* hours 11..20, every day of the week (dow 7 = '*')
MaintenanceCron == [minute |-> "*/1", hourFrom |-> 11, hourTo |-> 20, dow |-> 7]

\* the schedule without the stop of the former task
ScheduleMaintenanceNoStop(tasks, old) ==
    [tasks |-> CronSchedule(tasks, FreshTask(tasks), "maintenance", MaintenanceCron),
     task |-> FreshTask(tasks)]

\* scheduleMaintenance(): stop and drop the former task, schedule a new one
ScheduleMaintenance(tasks, old) ==
    LET stopped == IF old # 0 THEN CronStop(tasks, old) ELSE tasks
        id == FreshTask(stopped)
    IN [tasks |-> CronSchedule(stopped, id, "maintenance", MaintenanceCron), task |-> id]

\* what follows the end of syncPlanning in the entry point: initialize() goes
\* on to scheduleMaintenance(), the other two return
AfterRun(e, r) ==
    /\ IF e = "init" /\ r.pc = "done"
       THEN LET s == ScheduleMaintenance(cronTasks, maintenanceTask)
            IN /\ cronTasks' = s.tasks
               /\ maintenanceTask' = s.task
       ELSE UNCHANGED <<cronTasks, maintenanceTask>>
    /\ lastRun' = IF r.pc = "done"
                  THEN [ok |-> TRUE, today |-> r.today,
                        changed |-> r.deleted # {} \/ r.created # {}]
                  ELSE lastRun
    /\ boot' = IF e = "init" /\ r.pc = "done" /\ boot = "initializing" THEN "initialized" ELSE boot

\* an entry point is called: fetchGuild() is issued
CallEntry(e) ==
    /\ runs[e].pc \in {"idle", "done", "failed"}
    /\ runs' = [x \in Entries |->
                  IF x = e
                  THEN [IdleRun EXCEPT !.pc = "fetchGuild",
                                       !.afterOk = lastRun.ok, !.afterDay = lastRun.today,
                                       !.afterChanged = lastRun.changed,
                                       !.hadTask = maintenanceTask # 0,
                                       !.overlapped = ~NoActiveRun]
                  ELSE IF Active(x) THEN [runs[x] EXCEPT !.overlapped = TRUE]
                  ELSE IdleRun]
    /\ lastRun' = [lastRun EXCEPT !.ok = FALSE]
    /\ UNCHANGED <<platformVars, categoryId, timerVars, reminderVars, envVars, log>>

\* the call of an entry point from outside the interaction handlers
StartRun(e) ==
    /\ UNCHANGED svcVars
    /\ CallEntry(e)

\* client.once('ready'): the listener calls planningManager.initialize()
ReadyEvent ==
    /\ boot = "loggedIn"
    /\ boot' = "initializing"
    /\ StartRun("init")

\* /gym setup: handleChatInputInteraction calls syncPlanningCommand()
SetupCommand ==
    /\ boot \in {"loggedIn", "initializing", "initialized", "initFailed"}
    /\ StartRun("setup")
    /\ UNCHANGED boot

\* initialize() is called once more after the call of the ready listener
Reinitialize ==
    /\ boot \in {"initialized", "initFailed"}
    /\ StartRun("init")
    /\ UNCHANGED boot

\* a tick of the maintenance schedule: every scheduled maintenance task calls
\* its callback
MaintenanceFire ==
    /\ \E t \in DOMAIN cronTasks : cronTasks[t].kind = "maintenance"
    /\ StartRun("timer")
    /\ UNCHANGED boot

\* client.guilds.fetch resolves; ensureCategory finds the category, and then
\* syncPlanning starts, or it issues the creation of the category
FetchGuildOk(e) ==
    /\ UNCHANGED svcVars
    /\ runs[e].pc = "fetchGuild"
    /\ LET cat == FindCategory(channels)
           r == IF cat = 0 THEN [runs[e] EXCEPT !.pc = "createCategory"]
                ELSE BeginSync(runs[e], cat, channels, messages, today, daysAhead)
       IN /\ runs' = [runs EXCEPT ![e] = r]
          /\ categoryId' = IF cat = 0 THEN categoryId ELSE cat
          /\ AfterRun(e, r)
    /\ UNCHANGED <<platformVars, reminderTasks, reminderVars, envVars, log>>

\* guild.channels.create({name: categoryName, type: GuildCategory}) resolves
CreateCategoryOk(e) ==
    /\ UNCHANGED svcVars
    /\ runs[e].pc = "createCategory"
    /\ LET chs == channels \cup {[id |-> nextId, name |-> CategoryName, type |-> "category", parent |-> 0]}
           r == BeginSync(runs[e], nextId, chs, messages, today, daysAhead)
       IN /\ channels' = chs
          /\ runs' = [runs EXCEPT ![e] = r]
          /\ categoryId' = nextId
          /\ AfterRun(e, r)
    /\ nextId' = nextId + 1
    /\ UNCHANGED <<today, daysAhead, messages, reminderTasks, reminderVars, envVars, log>>

\* channel.delete(...) resolves for snapshot[i]; the loop goes on
DeleteOk(e) ==
    /\ UNCHANGED svcVars
    /\ runs[e].pc = "delete"
    /\ LET c == runs[e].snapshot[runs[e].i]
           chs == channels \ {c}
           r == ScanDelete([runs[e] EXCEPT !.deleted = @ \cup {c}], chs, runs[e].i + 1)
       IN /\ c \in channels
          /\ channels' = chs
          /\ messages' = DropChannel(messages, c.id)
          /\ runs' = [runs EXCEPT ![e] = r]
          /\ AfterRun(e, r)
    /\ UNCHANGED <<today, daysAhead, nextId, categoryId, reminderTasks, reminderVars, envVars, log>>

\* guild.channels.create({name, type: GuildText, parent: category}) resolves;
\* initializePlanningChannel issues the header
CreateChannelOk(e) ==
    /\ UNCHANGED svcVars
    /\ runs[e].pc = "createChannel"
    /\ runs[e].category \in Ids(channels)
    /\ LET r == runs[e]
       IN /\ channels' = channels \cup {[id |-> nextId, name |-> r.desired[r.j].name,
                                         type |-> "text", parent |-> r.category]}
          /\ messages' = AddChannel(messages, nextId)
          /\ runs' = [runs EXCEPT ![e] = [r EXCEPT !.pc = "sendHeader", !.cur = nextId,
                                                   !.created = @ \cup {nextId}]]
    /\ nextId' = nextId + 1
    /\ UNCHANGED <<today, daysAhead, categoryId, lastRun, timerVars, reminderVars, envVars, log, boot>>

\* channel.send({embeds: [...]}) resolves; the first slot is issued
SendHeaderOk(e) ==
    /\ UNCHANGED svcVars
    /\ runs[e].pc = "sendHeader"
    /\ runs[e].cur \in DOMAIN messages
    /\ LET r == runs[e]
       IN /\ messages' = Append2(messages, r.cur, HeaderMessage(r.desired[r.j].label))
          /\ runs' = [runs EXCEPT ![e] = [r EXCEPT !.pc = "sendSlot", !.k = 1, !.posts = @ + 1]]
    /\ UNCHANGED <<today, daysAhead, channels, nextId, categoryId, lastRun, timerVars,
                   reminderVars, envVars, log, boot>>

\* channel.send(slot) resolves; message.react is issued
SendSlotOk(e) ==
    /\ UNCHANGED svcVars
    /\ runs[e].pc = "sendSlot"
    /\ runs[e].cur \in DOMAIN messages
    /\ LET r == runs[e]
       IN /\ messages' = Append2(messages, r.cur, SlotMessage(planningTimeSlots[r.k]))
          /\ runs' = [runs EXCEPT ![e] = [r EXCEPT !.pc = "react", !.posts = @ + 1,
                                                   !.msg = Len(messages[r.cur]) + 1]]
    /\ UNCHANGED <<today, daysAhead, channels, nextId, categoryId, lastRun, timerVars,
                   reminderVars, envVars, log, boot>>

\* message.react resolves; the next slot is issued, or the creation loop goes on
ReactOk(e) ==
    /\ UNCHANGED svcVars
    /\ runs[e].pc = "react"
    /\ runs[e].cur \in DOMAIN messages
    /\ LET r == runs[e]
           rn == IF r.k < Len(planningTimeSlots)
                 THEN [r EXCEPT !.pc = "sendSlot", !.k = r.k + 1]
                 ELSE ScanCreate(r, channels, r.j + 1)
       IN /\ messages' = AddReact(messages, r.cur, r.msg, Self)
          /\ runs' = [runs EXCEPT ![e] = rn]
          /\ AfterRun(e, rn)
    /\ UNCHANGED <<today, daysAhead, channels, nextId, categoryId, reminderTasks,
                   reminderVars, envVars, log>>

\* a cron callback without try/catch: the rejection is unhandled, the process
\* ends and every scheduled task with it
CallbackNoCatch(tasks) == <<>>

\* the try/catch of a cron callback: the rejection stays in the callback and
\* the scheduled tasks are as they were
CallbackCatch(tasks) == tasks

\* the object of the pending call is still there (a call on a channel that is
\* gone is rejected by the platform)
CanSucceed(e) ==
    CASE runs[e].pc = "delete" -> runs[e].snapshot[runs[e].i] \in channels
      [] runs[e].pc = "createChannel" -> runs[e].category \in Ids(channels)
      [] runs[e].pc \in {"sendHeader", "sendSlot", "react"} -> runs[e].cur \in DOMAIN messages
      [] OTHER -> TRUE

\* the pending platform call rejects: the error leaves syncPlanning and the
\* entry point, and is logged by the ready listener, the interaction listener
\* or the cron callback
RunFail(e) ==
    /\ UNCHANGED svcVars
    /\ Active(e)
    /\ nFails < MaxFailures \/ ~CanSucceed(e)
    /\ nFails' = IF CanSucceed(e) THEN nFails + 1 ELSE nFails
    /\ runs' = [runs EXCEPT ![e] = [@ EXCEPT !.pc = "failed"]]
    /\ log' = log \cup {[level |-> "error", from |-> e]}
    /\ boot' = IF e = "init" /\ boot = "initializing" THEN "initFailed" ELSE boot
    /\ cronTasks' = IF e = "timer" THEN CallbackCatch(cronTasks) ELSE cronTasks
    /\ UNCHANGED <<platformVars, categoryId, lastRun, maintenanceTask, reminderTasks,
                   reminderVars, nReacts, nPosts, nAdmin>>

\* midnight passes
NextDay ==
    /\ UNCHANGED svcVars
    /\ today < FirstDay + MaxDayAdvance
    /\ today' = today + 1
    /\ UNCHANGED <<daysAhead, channels, messages, nextId, planningVars, timerVars,
                   reminderVars, envVars, log, boot>>

(***************************************************************************)
(* Startup: main() and registerEvents()                                    *)
(***************************************************************************)
\* main(): registerGuildCommands() resolves or rejects (caught and logged),
\* then client.login is issued
RegisterCommands ==
    /\ UNCHANGED svcVars
    /\ boot = "registering"
    /\ boot' = "login"
    /\ \/ UNCHANGED log
       \/ log' = log \cup {[level |-> "error", from |-> "commands"]}
    /\ UNCHANGED <<platformVars, planningVars, timerVars, reminderVars, envVars>>

\* client.login resolves
LoginOk ==
    /\ UNCHANGED svcVars
    /\ boot = "login"
    /\ boot' = "loggedIn"
    /\ UNCHANGED <<platformVars, planningVars, timerVars, reminderVars, envVars, log>>

\* client.login rejects: main().catch logs and sets process.exitCode = 1
LoginFail ==
    /\ UNCHANGED svcVars
    /\ boot = "login"
    /\ boot' = "fatal"
    /\ log' = log \cup {[level |-> "error", from |-> "main"]}
    /\ UNCHANGED <<platformVars, planningVars, timerVars, reminderVars, envVars>>

(***************************************************************************)
(* Reminder Correlator: TrashReminderService                               *)
(***************************************************************************)
RuleTypes == {reminderConfigs[i].type : i \in DOMAIN reminderConfigs}

RuleOf(t) == CHOOSE c \in Range(reminderConfigs) : c.type = t

\* planningChannel.messages.fetch({ limit: 100 })
FetchLimit == 100

IdleFire ==
    [pc |-> "idle", today |-> 0, channel |-> 0, planning |-> 0, fetched |-> <<>>,
     s |-> 0, target |-> 0, usersSet |-> <<>>, u |-> 0, users |-> <<>>,
     \* ghosts: messages sent, the soft not-found met, the messages the fetch
     \* returned, the users whose account could not be fetched
     sent |-> 0, notFound |-> "none", seen |-> <<>>, dropped |-> {}]

FirePending == {"fetchGuild", "fetchMessages", "fetchUsers", "fetchUser", "send"}

FireActive(t) == fires[t].pc \in FirePending

\* ensureChannel: cache.find(GuildText named config.trash.channelName)
FindTrashChannel(chs) ==
    LET cs == {c \in chs : c.type = "text" /\ c.name = TrashChannelName}
    IN IF cs = {} THEN 0 ELSE SortById(cs)[1].id

\* ensureChannel: cache.find(GuildCategory named 'Fonctionnement asso')
FindAssoCategory(chs) ==
    LET cs == {c \in chs : c.type = "category" /\ c.name = AssoCategoryName}
    IN IF cs = {} THEN 0 ELSE SortById(cs)[1].id

\* the cron expression `0 ${hour} * * ${dayOfWeek}` of a rule
ReminderCron(c) == [minute |-> "0", hourFrom |-> c.hour, hourTo |-> c.hour, dow |-> c.dayOfWeek]

\* scheduleReminders(): stop every former task, then one task per rule, in
\* the order of reminderConfigs
RECURSIVE StopAll(_, _)
StopAll(tasks, ids) ==
    IF ids = <<>> THEN tasks ELSE StopAll(CronStop(tasks, Head(ids)), Tail(ids))

RECURSIVE ScheduleEach(_, _, _)
ScheduleEach(tasks, ids, cfgs) ==
    IF cfgs = <<>> THEN [tasks |-> tasks, ids |-> ids]
    ELSE LET id == FreshTask(tasks)
         IN ScheduleEach(CronSchedule(tasks, id, Head(cfgs).type, ReminderCron(Head(cfgs))),
                         Append(ids, id), Tail(cfgs))

ScheduleReminders(tasks, old) == ScheduleEach(StopAll(tasks, old), <<>>, reminderConfigs)

\* TrashReminderService.initialize() is called: fetchGuild() is issued
TrashInitialize ==
    /\ UNCHANGED svcVars
    /\ trashInit \in {"idle", "done", "failed"}
    /\ boot \in {"loggedIn", "initializing", "initialized", "initFailed"}
    /\ trashInit' = "fetchGuild"
    /\ UNCHANGED <<platformVars, planningVars, timerVars, channelId, firedOn, fires, envVars, log, boot>>

\* fetchGuild resolves; ensureChannel finds the reminders channel, and the
\* reminders are scheduled, or it issues the creation of the channel
TrashFetchGuildOk ==
    /\ UNCHANGED svcVars
    /\ trashInit = "fetchGuild"
    /\ LET ch == FindTrashChannel(channels)
           sch == ScheduleReminders(cronTasks, reminderTasks)
       IN IF ch # 0
          THEN /\ channelId' = ch
               /\ cronTasks' = sch.tasks
               /\ reminderTasks' = sch.ids
               /\ trashInit' = "done"
          ELSE /\ trashInit' = "createChannel"
               /\ UNCHANGED <<channelId, cronTasks, reminderTasks>>
    /\ UNCHANGED <<platformVars, planningVars, maintenanceTask, firedOn, fires, envVars, log, boot>>

\* guild.channels.create({name: channelName, type: GuildText, parent}) resolves
TrashCreateChannelOk ==
    /\ UNCHANGED svcVars
    /\ trashInit = "createChannel"
    /\ LET sch == ScheduleReminders(cronTasks, reminderTasks)
       IN /\ channels' = channels \cup {[id |-> nextId, name |-> TrashChannelName, type |-> "text",
                                         parent |-> FindAssoCategory(channels)]}
          /\ messages' = AddChannel(messages, nextId)
          /\ channelId' = nextId
          /\ cronTasks' = sch.tasks
          /\ reminderTasks' = sch.ids
    /\ nextId' = nextId + 1
    /\ trashInit' = "done"
    /\ UNCHANGED <<today, daysAhead, planningVars, maintenanceTask, firedOn, fires, envVars, log, boot>>

\* a platform call of initialize() rejects: the error goes to the caller
TrashInitFail ==
    /\ UNCHANGED svcVars
    /\ trashInit \in {"fetchGuild", "createChannel"}
    /\ nFails < MaxFailures
    /\ nFails' = nFails + 1
    /\ trashInit' = "failed"
    /\ UNCHANGED <<platformVars, planningVars, timerVars, channelId, firedOn, fires,
                   nReacts, nPosts, nAdmin, log, boot>>

\* getUsersFromPlanning: the name of today's planning channel
TargetChannelName(day) ==
    ReplaceSpaces(ToLowerCase(<<WeekdayNames[GetDay(day) + 1], " ", ToString(DateOf(day).day),
                                " ", MonthNames[DateOf(day).month]>>))

\* getUsersFromPlanning: cache.find(parentId === planningCategory.id &&
\* type === GuildText && name === channelName); 0 when there is none
FindPlanningChannel(chs, cat, name) ==
    LET cs == {c \in chs : c.parent = cat /\ c.type = "text" /\ c.name = name}
    IN IF cs = {} THEN 0 ELSE SortById(cs)[1].id

\* a fetch of the whole channel, newest first
FetchedAll(msgs) == [i \in 1..Len(msgs) |-> Len(msgs) - i + 1]

\* messages.fetch({limit: 100}): the indices of the most recent messages,
\* newest first
Fetched(msgs) ==
    LET n == IF Len(msgs) < FetchLimit THEN Len(msgs) ELSE FetchLimit
    IN [i \in 1..n |-> Len(msgs) - i + 1]

\* messages.find(msg => msg.content === timeSlot): the first match in the
\* order of the fetched collection; 0 when there is none
RECURSIVE FindSlotMessage(_, _, _)
FindSlotMessage(fetched, msgs, slot) ==
    IF fetched = <<>> THEN 0
    ELSE IF msgs[Head(fetched)].content = slot THEN Head(fetched)
    ELSE FindSlotMessage(Tail(fetched), msgs, slot)

\* the add of an array: push
ListPush(set, u) == Append(set, u)

\* usersSet.add(user.id) on an insertion-ordered Set
SetAdd(set, u) == IF u \in Range(set) THEN set ELSE Append(set, u)

\* the loop over the reacting users without the test of user.bot
RECURSIVE AddReactedWithBots(_, _, _)
AddReactedWithBots(set, reacted, order) ==
    IF order = <<>> THEN set
    ELSE LET u == Head(order)
             next == IF u \in reacted THEN Append(set, u) ELSE set
         IN AddReactedWithBots(next, reacted, Tail(order))

\* for (const user of reactedUsers.values()) if (!user.bot) usersSet.add(user.id)
RECURSIVE AddReacted(_, _, _)
AddReacted(set, reacted, order) ==
    IF order = <<>> THEN set
    ELSE LET u == Head(order)
             next == IF u \in reacted /\ ~IsBot(u) THEN SetAdd(set, u) ELSE set
         IN AddReacted(next, reacted, Tail(order))

\* the slot loop warns and continues: no message of that body among the
\* fetched ones, or no affirmative reaction on the one found
Skipped(fetched, msgs, slot) ==
    LET m == FindSlotMessage(fetched, msgs, slot)
    IN m = 0 \/ msgs[m].reacts = {}

\* the end of getUsersFromPlanning and of sendReminder up to channel.send:
\* the conversion loop issues users.fetch for usersSet[u], or the send is issued
ToSend(f, u) ==
    IF u > Len(f.usersSet) THEN [f EXCEPT !.pc = "send", !.u = u]
    ELSE [f EXCEPT !.pc = "fetchUser", !.u = u]

\* the slot loop of getUsersFromPlanning from timeSlots[s] on: stop at the
\* first slot whose message is found and has the reaction (reaction.users.fetch
\* is issued), or go on to the conversion loop
RECURSIVE ScanSlots(_, _, _, _)
ScanSlots(f, msgs, slots, s) ==
    IF s > Len(slots) THEN ToSend([f EXCEPT !.s = s], 1)
    ELSE LET m == FindSlotMessage(f.fetched, msgs, slots[s])
         IN IF Skipped(f.fetched, msgs, slots[s])
            THEN ScanSlots(f, msgs, slots, s + 1)
            ELSE [f EXCEPT !.pc = "fetchUsers", !.s = s, !.target = m]

\* a tick of the schedule of rule t: the task calls sendReminder, which logs
\* and returns without a channel id, or issues fetchGuild()
ReminderFire(t) ==
    /\ UNCHANGED svcVars
    /\ \E id \in DOMAIN cronTasks :
          cronTasks[id].kind = t /\ cronTasks[id].expr.dow = GetDay(today)
    /\ firedOn[t] # today
    /\ ~FireActive(t)
    /\ firedOn' = [firedOn EXCEPT ![t] = today]
    /\ IF channelId = 0
       THEN /\ fires' = [fires EXCEPT ![t] = [IdleFire EXCEPT !.pc = "aborted"]]
            /\ log' = log \cup {[level |-> "error", from |-> t]}
       ELSE /\ fires' = [fires EXCEPT ![t] = [IdleFire EXCEPT !.pc = "fetchGuild"]]
            /\ UNCHANGED log
    /\ UNCHANGED <<platformVars, planningVars, timerVars, channelId, trashInit, envVars, boot>>

\* fetchGuild resolves: the reminders channel is looked up, then the planning
\* category and today's planning channel
FireFetchGuildOk(t) ==
    /\ UNCHANGED svcVars
    /\ fires[t].pc = "fetchGuild"
    /\ LET f == [fires[t] EXCEPT !.today = today, !.channel = channelId]
           cat == FindCategory(channels)
           ch == IF cat = 0 THEN 0
                 ELSE FindPlanningChannel(channels, cat, TargetChannelName(today))
       IN IF channelId \notin Ids(channels)
          THEN /\ fires' = [fires EXCEPT ![t] = [f EXCEPT !.pc = "aborted"]]
               /\ log' = log \cup {[level |-> "error", from |-> t]}
          ELSE IF cat = 0
          THEN /\ fires' = [fires EXCEPT ![t] = [f EXCEPT !.pc = "send", !.notFound = "category"]]
               /\ log' = log \cup {[level |-> "warn", from |-> t]}
          ELSE IF ch = 0
          THEN /\ fires' = [fires EXCEPT ![t] = [f EXCEPT !.pc = "send", !.notFound = "channel"]]
               /\ log' = log \cup {[level |-> "warn", from |-> t]}
          ELSE /\ fires' = [fires EXCEPT ![t] = [f EXCEPT !.pc = "fetchMessages", !.planning = ch]]
               /\ UNCHANGED log
    /\ UNCHANGED <<platformVars, planningVars, timerVars, channelId, trashInit, firedOn, envVars, boot>>

\* messages.fetch resolves; the slot loop starts
FireFetchMessagesOk(t) ==
    /\ UNCHANGED svcVars
    /\ fires[t].pc = "fetchMessages"
    /\ fires[t].planning \in DOMAIN messages
    /\ LET msgs == messages[fires[t].planning]
           f == [fires[t] EXCEPT !.fetched = Fetched(msgs), !.seen = msgs]
       IN fires' = [fires EXCEPT ![t] = ScanSlots(f, msgs, RuleOf(t).timeSlots, 1)]
    /\ UNCHANGED <<platformVars, planningVars, timerVars, channelId, trashInit, firedOn, envVars, log, boot>>

\* reaction.users.fetch() resolves for the message of slot s; the loop goes on
FireFetchUsersOk(t) ==
    /\ UNCHANGED svcVars
    /\ fires[t].pc = "fetchUsers"
    /\ fires[t].planning \in DOMAIN messages
    /\ LET msgs == messages[fires[t].planning]
           f == [fires[t] EXCEPT !.usersSet = AddReacted(@, msgs[fires[t].target].reacts, AccountOrder)]
       IN fires' = [fires EXCEPT ![t] = ScanSlots(f, msgs, RuleOf(t).timeSlots, fires[t].s + 1)]
    /\ UNCHANGED <<platformVars, planningVars, timerVars, channelId, trashInit, firedOn, envVars, log, boot>>

\* client.users.fetch(userId) resolves: users.push(user)
FireFetchUserOk(t) ==
    /\ UNCHANGED svcVars
    /\ fires[t].pc = "fetchUser"
    /\ LET f == [fires[t] EXCEPT !.users = Append(@, fires[t].usersSet[fires[t].u])]
       IN fires' = [fires EXCEPT ![t] = ToSend(f, fires[t].u + 1)]
    /\ UNCHANGED <<platformVars, planningVars, timerVars, channelId, trashInit, firedOn, envVars, log, boot>>

\* client.users.fetch(userId) rejects: a warning, the user is left out
FireFetchUserFail(t) ==
    /\ UNCHANGED svcVars
    /\ fires[t].pc = "fetchUser"
    /\ nFails < MaxFailures
    /\ nFails' = nFails + 1
    /\ LET f == [fires[t] EXCEPT !.dropped = @ \cup {fires[t].usersSet[fires[t].u]}]
       IN fires' = [fires EXCEPT ![t] = ToSend(f, fires[t].u + 1)]
    /\ log' = log \cup {[level |-> "warn", from |-> t]}
    /\ UNCHANGED <<platformVars, planningVars, timerVars, channelId, trashInit, firedOn,
                   nReacts, nPosts, nAdmin, boot>>

\* the text of sendReminder without the mentions
ReminderWithoutMentions(t, users) ==
    NewMessage(IF t = "noir" THEN "Rappel: Poubelle noire" ELSE "Rappel: Poubelle jaune",
               <<>>, Self, <<>>)

\* the text of sendReminder, with the mentions `<@id>` kept apart
ReminderMessage(t, users) ==
    NewMessage(IF t = "noir" THEN "Rappel: Poubelle noire" ELSE "Rappel: Poubelle jaune",
               <<>>, Self, users)

\* the reminder sent to the planning channel that was read
SendToPlanning(f) == IF f.planning # 0 THEN f.planning ELSE f.channel

\* sendReminder: the channel the reminder goes to, cache.get(this.channelId)
SendTarget(f) == f.channel

\* channel.send(message) resolves
FireSendOk(t) ==
    /\ UNCHANGED svcVars
    /\ fires[t].pc = "send"
    /\ SendTarget(fires[t]) \in DOMAIN messages
    /\ messages' = Append2(messages, SendTarget(fires[t]), ReminderMessage(t, fires[t].users))
    /\ fires' = [fires EXCEPT ![t] = [@ EXCEPT !.pc = "done", !.sent = @ + 1]]
    /\ UNCHANGED <<today, daysAhead, channels, nextId, planningVars, timerVars, channelId,
                   trashInit, firedOn, envVars, log, boot>>

\* the channel of the pending call is still there
FireCanSucceed(t) ==
    CASE fires[t].pc \in {"fetchMessages", "fetchUsers"} -> fires[t].planning \in DOMAIN messages
      [] fires[t].pc = "send" -> SendTarget(fires[t]) \in DOMAIN messages
      [] OTHER -> TRUE

\* fetchGuild, messages.fetch, reaction.users.fetch or channel.send rejects:
\* the error leaves sendReminder and the cron callback logs it
FireFail(t) ==
    /\ UNCHANGED svcVars
    /\ fires[t].pc \in {"fetchGuild", "fetchMessages", "fetchUsers", "send"}
    /\ nFails < MaxFailures \/ ~FireCanSucceed(t)
    /\ nFails' = IF FireCanSucceed(t) THEN nFails + 1 ELSE nFails
    /\ fires' = [fires EXCEPT ![t] = [@ EXCEPT !.pc = "failed"]]
    /\ log' = log \cup {[level |-> "error", from |-> t]}
    /\ cronTasks' = CallbackCatch(cronTasks)
    /\ UNCHANGED <<platformVars, planningVars, maintenanceTask, reminderTasks, channelId,
                   trashInit, firedOn, nReacts, nPosts, nAdmin, boot>>

(***************************************************************************)
(* The members and administrators of the guild                             *)
(***************************************************************************)
\* who reacts on what, in the channel of which day (0 is today): A and B on
\* the first relevant slot, B and C on the second, a bot on the first, A on a
\* slot that is not relevant, C on a relevant slot of tomorrow
ReactChoices ==
    {<<"A", relevantTimeSlots[1], 0>>, <<"B", relevantTimeSlots[1], 0>>,
     <<"B", relevantTimeSlots[2], 0>>, <<"C", relevantTimeSlots[2], 0>>,
     <<"musicbot", relevantTimeSlots[1], 0>>, <<"A", planningTimeSlots[1], 0>>,
     <<"C", relevantTimeSlots[1], 1>>}

\* the day whose channel members post into (0 is today)
PostDays == {0}

\* the day a planning channel is named after, counted from today (-1: none)
DayOffsetOf(ch) ==
    LET c == ChannelById(channels, ch)
        ds == {d \in 0..MaxDaysAhead : c.name = Slug(today + d)}
    IN IF ds = {} THEN -1 ELSE CHOOSE d \in ds : TRUE

\* the bodies members post into a planning channel
PostContents == {relevantTimeSlots[1]}

\* the members who post
PostAuthors == {"C"}

\* the records of the handlers that have returned are dropped (their locals
\* are dead; the ghosts in them describe a state the members now change)
ForgetFinished ==
    /\ runs' = [e \in Entries |-> IF Active(e) THEN runs[e] ELSE IdleRun]
    /\ fires' = [t \in RuleTypes |-> IF FireActive(t) THEN fires[t] ELSE IdleFire]

\* an account adds the affirmative reaction to a message of a planning channel
MemberReact(u, ch, idx) ==
    /\ UNCHANGED svcVars
    /\ nReacts < MaxReacts
    /\ ch \in Ids(PlanningTexts(channels, FindCategory(channels)))
    /\ idx \in DOMAIN messages[ch]
    /\ <<u, messages[ch][idx].content, DayOffsetOf(ch)>> \in ReactChoices
    /\ u \notin messages[ch][idx].reacts
    /\ messages' = AddReact(messages, ch, idx, u)
    /\ nReacts' = nReacts + 1
    /\ ForgetFinished
    /\ UNCHANGED <<today, daysAhead, channels, nextId, categoryId, lastRun, timerVars,
                   channelId, trashInit, firedOn, nPosts, nFails, nAdmin, log, boot>>

\* a member posts a message into a planning channel
MemberPost(u, ch, body) ==
    /\ UNCHANGED svcVars
    /\ nPosts < MaxPosts
    /\ u \in PostAuthors
    /\ ch \in Ids(PlanningTexts(channels, FindCategory(channels)))
    /\ body \in PostContents
    /\ DayOffsetOf(ch) \in PostDays
    /\ messages' = Append2(messages, ch, NewMessage(body, <<>>, u, <<>>))
    /\ nPosts' = nPosts + 1
    /\ ForgetFinished
    /\ UNCHANGED <<today, daysAhead, channels, nextId, categoryId, lastRun, timerVars,
                   channelId, trashInit, firedOn, nReacts, nFails, nAdmin, log, boot>>

\* an administrator deletes the reminders channel
AdminDeleteReminders ==
    /\ UNCHANGED svcVars
    /\ nAdmin < MaxAdmin
    /\ channelId \in Ids(channels)
    /\ channels' = {c \in channels : c.id # channelId}
    /\ messages' = DropChannel(messages, channelId)
    /\ nAdmin' = nAdmin + 1
    /\ UNCHANGED <<today, daysAhead, nextId, planningVars, timerVars, reminderVars,
                   nReacts, nPosts, nFails, log, boot>>

(***************************************************************************)
(* Initial states                                                          *)
(***************************************************************************)
\* the channels a guild may hold before the bot starts
PlanningCat == [id |-> 1, name |-> CategoryName, type |-> "category", parent |-> 0]

AssoCat == [id |-> 2, name |-> AssoCategoryName, type |-> "category", parent |-> 0]

\* under the planning category: a stale day, the two first days of the window,
\* a channel that is no day, a second channel named as today, and a voice
\* channel named as a stale day
InitPlanningKids ==
    {[id |-> 3, name |-> Slug(FirstDay - 1), type |-> "text", parent |-> 1],
     [id |-> 4, name |-> Slug(FirstDay), type |-> "text", parent |-> 1],
     [id |-> 5, name |-> Slug(FirstDay + 1), type |-> "text", parent |-> 1],
     [id |-> 6, name |-> <<"general">>, type |-> "text", parent |-> 1],
     [id |-> 7, name |-> Slug(FirstDay), type |-> "text", parent |-> 1],
     [id |-> 8, name |-> Slug(FirstDay - 1), type |-> "voice", parent |-> 1]}

\* elsewhere: a stale day under another category, today's name without parent
InitElsewhere ==
    {[id |-> 9, name |-> Slug(FirstDay - 1), type |-> "text", parent |-> 2],
     [id |-> 10, name |-> Slug(FirstDay), type |-> "text", parent |-> 0]}

InitNextId == 1 + Cardinality({PlanningCat, AssoCat} \cup InitPlanningKids \cup InitElsewhere)

InitChannelSets ==
    {{AssoCat} \cup InitElsewhere}
    \cup {{AssoCat, PlanningCat} \cup kids \cup InitElsewhere :
            kids \in {k \in SUBSET InitPlanningKids : Cardinality(k) <= MaxInitChannels}}

EmptyMessages(chs) == [id \in {c.id : c \in {d \in chs : d.type = "text"}} |-> <<>>]

(***************************************************************************)
(* The interaction handlers: registerEvents.ts dispatches every slash      *)
(* command and every button press to a handler that runs concurrently with *)
(* the others; each await of a handler is one step.                        *)
(***************************************************************************)
MaxInteractions == 3

Slots == {1, 2}

\* GymStatus = 'Ouverte' | 'Fermée', written without the accent
Statuses == {"Ouverte", "Fermee"}

DefaultStatus == "Fermee"

Actors == {"alice", "bob"}

NoActor == "null"

Builds == {"ts", "dist"}

\* GymStatusManager.buildEmbed: the status and the last actor, N/A for null
buildEmbed(st, by) ==
    [status |-> st, lastAction |-> IF by = NoActor THEN "N/A" ELSE by]

ButtonsSwapped(st) ==
    [openDisabled |-> st = "Fermee", closeDisabled |-> st = "Ouverte", gateDisabled |-> FALSE]

\* GymStatusManager.buildActionRow: which of the three buttons are disabled
buildActionRow(st) ==
    [openDisabled |-> st = "Ouverte", closeDisabled |-> st = "Fermee", gateDisabled |-> FALSE]

\* the payload of channel.send and of message.edit
Rendered(st, by) == [embed |-> buildEmbed(st, by), row |-> buildActionRow(st)]

DispatcherCrash == "crashed"

\* the catch of the interactionCreate listener: the error is logged and the
\* listener returns
DispatcherCatch == "failed"

IdleInter ==
    [pc |-> "idle", kind |-> "none", actor |-> NoActor, seq |-> 0, old |-> 0, issued |-> 0,
     payload |-> Rendered(DefaultStatus, NoActor), replies |-> <<>>, events |-> <<>>,
     k |-> 0, results |-> <<>>, inGuild |-> FALSE, inText |-> FALSE, upd |-> 0,
     shown |-> "none", ticket |-> 0]

InterFree(i) == inter[i].pc \in {"idle", "done", "failed"}

NoActiveInter == \A i \in Slots : InterFree(i)

\* a lock around the handlers: an interaction waits for the running ones
CanReceiveLocked(i) ==
    /\ \A j \in Slots : inter[j].pc \in {"idle", "done", "failed"}
    /\ i = 1
    /\ nInter < MaxInteractions

\* an interaction takes the lowest free slot
CanReceive(i) ==
    /\ \A j \in Slots : inter[j].pc # "crashed"
    /\ InterFree(i)
    /\ \A j \in Slots : j < i => ~InterFree(j)
    /\ nInter < MaxInteractions

StatusIds == {m.id : m \in statusChan}

StatusContent(id) == (CHOOSE m \in statusChan : m.id = id).content

botVars == <<platformVars, planningVars, timerVars, reminderVars, boot, nReacts, nPosts, nAdmin>>

\* the requests that wait on one route of the platform: the posts to the
\* status channel, the edits of the status message
SendRoute == {"pubSend", "refSend"}

EditRoute == {"refEdit"}

\* ghost: the place of a request issued now among the pending requests of
\* its route
NextTicket(route) ==
    LET pending == {inter[j].ticket : j \in {x \in Slots : inter[x].pc \in route}}
    IN IF pending = {} THEN 1 ELSE 1 + (CHOOSE t \in pending : \A u \in pending : u <= t)

\* publishStatus and the compiled refreshStatusMessage: delete the tracked
\* message first when there is one, else send at once
DeleteThenSend(h, pcDelete, pcSend) ==
    [h EXCEPT !.pc = IF statusMessage # 0 THEN pcDelete ELSE pcSend,
              !.old = statusMessage,
              !.payload = Rendered(status, lastActionBy),
              !.issued = nUpdates,
              !.ticket = IF statusMessage # 0 THEN 0 ELSE NextTicket(SendRoute)]

\* the handler record of the interaction received now
Received(kind, actor, pc) ==
    [IdleInter EXCEPT !.kind = kind, !.actor = actor, !.pc = pc, !.seq = nInter + 1]

CommandStepAnywhere(inText) == "defer"

\* interaction.channel is a guild text channel, or the command is refused
CommandStep(inText) == IF inText THEN "defer" ELSE "replyUnavailable"

\* /gym status: handleGymStatusCommand, in a text channel or elsewhere
GymStatusCommand(i, inText) ==
    /\ CanReceive(i)
    /\ nInter' = nInter + 1
    /\ inter' = [inter EXCEPT ![i] =
                    [Received("gymStatus", NoActor, CommandStep(inText)) EXCEPT !.inText = inText]]
    /\ UNCHANGED <<botVars, nFails, log, statusVars, gateVars, rulesVars>>

\* deferReply resolved: publishStatus starts
StatusDeferOk(i) ==
    /\ inter[i].pc = "defer"
    /\ inter[i].kind = "gymStatus"
    /\ inter' = [inter EXCEPT ![i] =
                    DeleteThenSend([inter[i] EXCEPT !.replies = <<"defer">>], "pubDelete", "pubSend")]
    /\ UNCHANGED <<botVars, nFails, log, statusVars, gateVars, rulesVars, nInter>>

\* updateStatus without the refresh
RefreshNotIssued(h, st, actor) ==
    [h EXCEPT !.pc = "done", !.payload = Rendered(st, actor), !.upd = nUpdates + 1]

\* statusManager.updateStatus(status, actor) and refreshStatusMessage up to
\* its first await: the source edits the tracked message, the compiled file
\* deletes and reposts
RefreshStart(h, st, actor) ==
    [h EXCEPT !.pc = IF build = "ts" THEN "refEdit" ELSE "refDelete",
              !.old = statusMessage, !.payload = Rendered(st, actor),
              !.issued = nUpdates + 1, !.upd = nUpdates + 1,
              !.ticket = IF build = "ts" THEN NextTicket(EditRoute) ELSE 0]

\* a manager that always claims to track a message
hasStatusMessageAlways == TRUE

\* get hasStatusMessage(): this.statusMessage !== null
hasStatusMessage == statusMessage # 0

\* an update that also renders the new pair into the tracked message
updateStatusAndRender(newStatus, actor) ==
    /\ status' = newStatus
    /\ lastActionBy' = actor
    /\ nUpdates' = nUpdates + 1
    /\ statusChan' = {IF m.id = statusMessage
                      THEN [m EXCEPT !.content = Rendered(newStatus, actor)] ELSE m :
                         m \in statusChan}
    /\ UNCHANGED <<statusMessage, statusSeq>>

\* GymStatusManager.updateStatus: two assignments and a log line
updateStatus(newStatus, actor) ==
    /\ status' = newStatus
    /\ lastActionBy' = actor
    /\ nUpdates' = nUpdates + 1
    /\ UNCHANGED <<statusMessage, statusChan, statusSeq>>

\* a press of the open or the close button by actor: updateGymStatus up to
\* its first await; the compiled dispatcher awaits deferUpdate before it
\* calls updateStatus
StatusButton(i, st, actor) ==
    /\ CanReceive(i)
    /\ nInter' = nInter + 1
    /\ IF ~hasStatusMessage
       THEN /\ inter' = [inter EXCEPT ![i] = Received("button", actor, "replyNoMessage")]
            /\ UNCHANGED <<status, lastActionBy, nUpdates, statusMessage, statusChan, statusSeq>>
       ELSE IF build = "ts"
       THEN /\ updateStatus(st, actor)
            /\ inter' = [inter EXCEPT ![i] =
                            RefreshStart(Received("button", actor, "refEdit"), st, actor)]
       ELSE /\ inter' = [inter EXCEPT ![i] =
                            [Received("button", actor, "deferUpdate")
                                EXCEPT !.payload = Rendered(st, actor)]]
            /\ UNCHANGED <<status, lastActionBy, nUpdates, statusMessage, statusChan, statusSeq>>
    /\ UNCHANGED <<botVars, nFails, log, build, gateVars, rulesVars>>

\* deferUpdate resolved (compiled dispatcher): updateStatus, then the refresh
StatusDeferUpdateOk(i) ==
    /\ inter[i].pc = "deferUpdate"
    /\ updateStatus(inter[i].payload.embed.status, inter[i].actor)
    /\ inter' = [inter EXCEPT ![i] =
                    RefreshStart([inter[i] EXCEPT !.replies = <<"deferUpdate">>],
                                 inter[i].payload.embed.status, inter[i].actor)]
    /\ UNCHANGED <<botVars, nFails, log, build, gateVars, rulesVars, nInter>>

\* deferUpdate rejected: the catch of the compiled updateGymStatus logs the
\* error and replies with the message of the error
StatusDeferUpdateFail(i) ==
    /\ inter[i].pc = "deferUpdate"
    /\ nFails < MaxFailures
    /\ nFails' = nFails + 1
    /\ log' = log \cup {[level |-> "error", from |-> "updateGymStatus"]}
    /\ inter' = [inter EXCEPT ![i].pc = "errReply", ![i].events = Append(@, "caught")]
    /\ UNCHANGED <<botVars, statusVars, gateVars, rulesVars, nInter>>

\* the delete of the tracked message resolved; the send is issued with the
\* embed and the buttons built at that moment
StatusDeleteOk(i) ==
    /\ inter[i].pc \in {"pubDelete", "refDelete"}
    /\ inter[i].old \in StatusIds
    /\ statusChan' = {m \in statusChan : m.id # inter[i].old}
    /\ inter' = [inter EXCEPT ![i].pc = IF inter[i].pc = "pubDelete" THEN "pubSend" ELSE "refSend",
                              ![i].payload = Rendered(status, lastActionBy),
                              ![i].issued = nUpdates,
                              ![i].ticket = NextTicket(SendRoute),
                              ![i].events = Append(@, "deleted")]
    /\ UNCHANGED <<botVars, nFails, log, build, status, lastActionBy, statusMessage, statusSeq,
                   nUpdates, gateVars, rulesVars, nInter>>

\* the delete was rejected (the message is gone, or the platform failed):
\* logger.warn, and the send is issued all the same
StatusDeleteFail(i) ==
    /\ inter[i].pc \in {"pubDelete", "refDelete"}
    /\ nFails < MaxFailures \/ inter[i].old \notin StatusIds
    /\ nFails' = IF inter[i].old \in StatusIds THEN nFails + 1 ELSE nFails
    /\ log' = log \cup {[level |-> "warn", from |-> inter[i].pc]}
    /\ inter' = [inter EXCEPT ![i].pc = IF inter[i].pc = "pubDelete" THEN "pubSend" ELSE "refSend",
                              ![i].payload = Rendered(status, lastActionBy),
                              ![i].issued = nUpdates,
                              ![i].ticket = NextTicket(SendRoute),
                              ![i].events = Append(@, "deleteFailed")]
    /\ UNCHANGED <<botVars, statusVars, gateVars, rulesVars, nInter>>

TrackOld(i, new) == inter[i].old

\* after refreshStatusMessage the source replies that the status was
\* updated, the compiled updateGymStatus returns without a word
AfterRefresh == IF build = "ts" THEN "btnReply" ELSE "done"

\* this.statusMessage = message
TrackNew(i, new) == new

\* channel.send resolved: the new message is the tracked one
StatusSendOk(i) ==
    /\ inter[i].pc \in {"pubSend", "refSend"}
    /\ statusChan' = statusChan \cup {[id |-> statusSeq, content |-> inter[i].payload]}
    /\ statusSeq' = statusSeq + 1
    /\ statusMessage' = TrackNew(i, statusSeq)
    /\ inter' = [inter EXCEPT ![i].pc = IF inter[i].pc = "pubSend" THEN "pubReply"
                                        ELSE AfterRefresh,
                              ![i].events = Append(@, "sent")]
    /\ UNCHANGED <<botVars, nFails, log, build, status, lastActionBy, nUpdates, gateVars,
                   rulesVars, nInter>>

\* channel.send rejected: publishStatus throws into the catch of the
\* interactionCreate listener, refreshStatusMessage logs and returns
StatusSendFail(i) ==
    /\ inter[i].pc \in {"pubSend", "refSend"}
    /\ nFails < MaxFailures
    /\ nFails' = nFails + 1
    /\ log' = log \cup {[level |-> "error",
                         from |-> IF inter[i].pc = "pubSend" THEN "interaction" ELSE "refSend"]}
    /\ inter' = [inter EXCEPT ![i].pc = IF inter[i].pc = "pubSend" THEN DispatcherCatch
                                        ELSE AfterRefresh,
                              ![i].events = Append(@, "sendFailed")]
    /\ UNCHANGED <<botVars, statusVars, gateVars, rulesVars, nInter>>

\* statusMessage.edit resolved: the tracked message shows the new payload
StatusEditOk(i) ==
    /\ inter[i].pc = "refEdit"
    /\ inter[i].old \in StatusIds
    /\ statusChan' = {IF m.id = inter[i].old THEN [m EXCEPT !.content = inter[i].payload] ELSE m :
                        m \in statusChan}
    /\ inter' = [inter EXCEPT ![i].pc = "btnReply", ![i].events = Append(@, "edited")]
    /\ UNCHANGED <<botVars, nFails, log, build, status, lastActionBy, statusMessage, statusSeq,
                   nUpdates, gateVars, rulesVars, nInter>>

\* statusMessage.edit rejected: logger.error, the handler goes on
StatusEditFail(i) ==
    /\ inter[i].pc = "refEdit"
    /\ nFails < MaxFailures \/ inter[i].old \notin StatusIds
    /\ nFails' = IF inter[i].old \in StatusIds THEN nFails + 1 ELSE nFails
    /\ log' = log \cup {[level |-> "error", from |-> "refEdit"]}
    /\ inter' = [inter EXCEPT ![i].pc = "btnReply", ![i].events = Append(@, "editFailed")]
    /\ UNCHANGED <<botVars, statusVars, gateVars, rulesVars, nInter>>

\* what each pending reply tells the user
ReplyText(pc) ==
    CASE pc = "replyUnavailable" -> "unavailable"
      [] pc = "pubReply" -> "published"
      [] pc = "replyNoMessage" -> "noStatusMessage"
      [] pc = "btnReply" -> "updated"
      [] OTHER -> "none"

StatusReplies == {"replyUnavailable", "pubReply", "replyNoMessage", "btnReply"}

\* the last reply of a status handler resolved
StatusReplyOk(i) ==
    /\ inter[i].pc \in StatusReplies
    /\ inter' = [inter EXCEPT ![i].pc = "done",
                              ![i].replies = Append(@, ReplyText(inter[i].pc))]
    /\ UNCHANGED <<botVars, nFails, log, statusVars, gateVars, rulesVars, nInter>>

\* a reply of a status handler was rejected: the catch of the compiled
\* updateGymStatus takes the rejected reply of a press, the catch of the
\* interactionCreate listener takes every other one
StatusReplyFail(i) ==
    /\ inter[i].pc \in StatusReplies \cup {"defer", "errReply"}
    /\ inter[i].kind \in {"gymStatus", "button"}
    /\ nFails < MaxFailures
    /\ nFails' = nFails + 1
    /\ IF build = "dist" /\ inter[i].pc = "replyNoMessage"
       THEN /\ log' = log \cup {[level |-> "error", from |-> "updateGymStatus"]}
            /\ inter' = [inter EXCEPT ![i].pc = "errReply", ![i].events = Append(@, "caught")]
       ELSE /\ log' = log \cup {[level |-> "error", from |-> "interaction"]}
            /\ inter' = [inter EXCEPT ![i].pc = DispatcherCatch]
    /\ UNCHANGED <<botVars, statusVars, gateVars, rulesVars, nInter>>

\* the messages an error can carry
Details == {"Unknown interaction", "ECONNRESET"}

\* the reply of the catch of the compiled updateGymStatus resolved: its
\* content ends with error.message
StatusErrorReplyOk(i) ==
    /\ inter[i].pc = "errReply"
    /\ \E d \in Details :
          inter' = [inter EXCEPT ![i].pc = "done",
                                 ![i].replies = Append(@, "statusError"),
                                 ![i].shown = d]
    /\ UNCHANGED <<botVars, nFails, log, statusVars, gateVars, rulesVars, nInter>>

(***************************************************************************)
(* GateService: the gate button                                            *)
(***************************************************************************)
\* collectGateNumbers reads three environment variables
GateNumberSlots == 3

\* GATE_PHONE_NUMBER, GATE_PHONE_NUMBER_1, GATE_PHONE_NUMBER_2 when set
GateEnv == <<"+331", "+332", "+333">>

\* rawNumbers.filter(Boolean): the variables that are set, in their order
RECURSIVE collectGateNumbers(_, _)
collectGateNumbers(set, k) ==
    IF k > GateNumberSlots THEN <<>>
    ELSE (IF k \in set THEN <<GateEnv[k]>> ELSE <<>>) \o collectGateNumbers(set, k + 1)

\* the gate configurations of the environment: the credentials are there or
\* not, and any of the three number variables is set or not
NumberLists == {collectGateNumbers(set, 1) : set \in SUBSET (1..GateNumberSlots)}

TwilioConfigs == [configured : BOOLEAN, numbers : NumberLists]

NoTwilio == [configured |-> FALSE, numbers |-> <<>>]

GateReadyWithoutCredentials(tw) == Len(tw.numbers) # 0

\* handleOpenGate goes on to the sends: a client and a configuration, and at
\* least one number
GateReady(tw) == tw.configured /\ Len(tw.numbers) # 0

\* the attempts of the trigger numbered s
SmsOf(s) == {a \in sms : a.seq = s}

LinesOf(file, s) == SelectSeq(file, LAMBDA l : l.seq = s)

\* a press of the gate button by actor: handleOpenGate up to its first await
GateButton(i, actor) ==
    /\ CanReceive(i)
    /\ nInter' = nInter + 1
    /\ inter' = [inter EXCEPT ![i] =
                    Received("openGate", actor,
                             IF GateReady(twilio) THEN "gateDefer"
                             ELSE IF ~twilio.configured THEN "gateReplyUnavailable"
                             ELSE "gateReplyNoNumbers")]
    /\ UNCHANGED <<botVars, nFails, log, statusVars, gateVars, rulesVars>>

\* deferReply resolved: the loop over the numbers starts
GateDeferOk(i) ==
    /\ inter[i].pc = "gateDefer"
    /\ inter' = [inter EXCEPT ![i].pc = "gateSend", ![i].k = 1, ![i].replies = <<"defer">>]
    /\ UNCHANGED <<botVars, nFails, log, statusVars, gateVars, rulesVars, nInter>>

GateAbort(k, n) == "failed"

\* the catch inside the loop: the next number, or the summary after the last
GateNextStep(k, n) == IF k = n THEN "gateSummary" ELSE "gateSend"

\* one iteration of the loop, ok or caught: the attempt and its result line
GateAttempt(i, ok) ==
    LET h == inter[i]
        to == twilio.numbers[h.k]
    IN  /\ sms' = sms \cup {[to |-> to, ok |-> ok, seq |-> h.seq, k |-> h.k]}
        /\ inter' = [inter EXCEPT ![i].results = Append(@, [to |-> to, ok |-> ok]),
                                  ![i].k = h.k + 1,
                                  ![i].pc = IF ok THEN IF h.k = Len(twilio.numbers)
                                                       THEN "gateSummary" ELSE "gateSend"
                                            ELSE GateNextStep(h.k, Len(twilio.numbers))]

\* client.messages.create resolved
GateSendOk(i) ==
    /\ inter[i].pc = "gateSend"
    /\ GateAttempt(i, TRUE)
    /\ UNCHANGED <<botVars, nFails, log, statusVars, twilio, portalLog, rulesVars, nInter>>

\* client.messages.create rejected: logger.error and a failure line
GateSendFail(i) ==
    /\ inter[i].pc = "gateSend"
    /\ nFails < MaxFailures
    /\ nFails' = nFails + 1
    /\ log' = log \cup {[level |-> "error", from |-> "gateSend"]}
    /\ GateAttempt(i, FALSE)
    /\ UNCHANGED <<botVars, statusVars, twilio, portalLog, rulesVars, nInter>>

\* editReply with the joined results resolved: logGateOpening starts
GateSummaryOk(i) ==
    /\ inter[i].pc = "gateSummary"
    /\ inter' = [inter EXCEPT ![i].pc = "gateLog",
                              ![i].replies = Append(@, "summary"),
                              ![i].events = Append(@, "summary")]
    /\ UNCHANGED <<botVars, nFails, log, statusVars, gateVars, rulesVars, nInter>>

\* appendFile resolved: one line in the request log
GateLogOk(i) ==
    /\ inter[i].pc = "gateLog"
    /\ portalLog' = Append(portalLog, [user |-> inter[i].actor, seq |-> inter[i].seq])
    /\ inter' = [inter EXCEPT ![i].pc = "done", ![i].events = Append(@, "logged")]
    /\ UNCHANGED <<botVars, nFails, log, statusVars, twilio, sms, rulesVars, nInter>>

\* appendFile rejected: logger.error, no line
GateLogFail(i) ==
    /\ inter[i].pc = "gateLog"
    /\ nFails < MaxFailures
    /\ nFails' = nFails + 1
    /\ log' = log \cup {[level |-> "error", from |-> "gateLog"]}
    /\ inter' = [inter EXCEPT ![i].pc = "done", ![i].events = Append(@, "logFailed")]
    /\ UNCHANGED <<botVars, statusVars, gateVars, rulesVars, nInter>>

GateEarlyReplies == {"gateReplyUnavailable", "gateReplyNoNumbers"}

\* the reply of a trigger that did not pass the configuration checks resolved
GateReplyOk(i) ==
    /\ inter[i].pc \in GateEarlyReplies
    /\ inter' = [inter EXCEPT ![i].pc = "done",
                              ![i].replies = <<IF inter[i].pc = "gateReplyUnavailable"
                                               THEN "unavailable" ELSE "noNumbers">>]
    /\ UNCHANGED <<botVars, nFails, log, statusVars, gateVars, rulesVars, nInter>>

\* reply, deferReply or editReply rejected: handleOpenGate throws into the
\* catch of the interactionCreate listener
GateReplyFail(i) ==
    /\ inter[i].pc \in GateEarlyReplies \cup {"gateDefer", "gateSummary"}
    /\ nFails < MaxFailures
    /\ nFails' = nFails + 1
    /\ log' = log \cup {[level |-> "error", from |-> "interaction"]}
    /\ inter' = [inter EXCEPT ![i].pc = DispatcherCatch]
    /\ UNCHANGED <<botVars, statusVars, gateVars, rulesVars, nInter>>

(***************************************************************************)
(* RulesService: the accept-rules button                                   *)
(***************************************************************************)
\* config.rules.memberRoleName
MemberRoleName == "Membre"

RoleNames == {"Membre", "membre", "Bureau"}

findRoleAnyCase(roles) == roles \cap {"Membre", "membre"} # {}

\* RulesService.findRole: a role whose name is exactly the configured one
findRole(roles) == MemberRoleName \in roles

\* a press of the accept button by user, in the guild or in a direct message
RulesButton(i, user, inGuild) ==
    /\ CanReceive(i)
    /\ nInter' = nInter + 1
    /\ inter' = [inter EXCEPT ![i] =
                    [Received("acceptRules", user,
                              IF ~inGuild THEN "rulesReplyNoGuild"
                              ELSE IF ~findRole(guildRoles) THEN "rulesReplyAdmin"
                              ELSE "rulesDefer")
                        EXCEPT !.inGuild = inGuild]]
    /\ log' = IF inGuild /\ ~findRole(guildRoles)
              THEN log \cup {[level |-> "error", from |-> "findRole"]}
              ELSE log
    /\ UNCHANGED <<botVars, nFails, statusVars, gateVars, rulesVars>>

\* deferReply, then guild.members.fetch resolved
RulesStepOk(i) ==
    /\ inter[i].pc \in {"rulesDefer", "rulesFetch"}
    /\ inter' = [inter EXCEPT ![i].pc = IF inter[i].pc = "rulesDefer" THEN "rulesFetch" ELSE "rulesAdd",
                              ![i].replies = <<"defer">>]
    /\ UNCHANGED <<botVars, nFails, log, statusVars, gateVars, rulesVars, nInter>>

\* member.roles.add resolved: logSignature starts
RulesAddOk(i) ==
    /\ inter[i].pc = "rulesAdd"
    /\ granted' = granted \cup {inter[i].actor}
    /\ inter' = [inter EXCEPT ![i].pc = "rulesLog", ![i].events = Append(@, "granted")]
    /\ UNCHANGED <<botVars, nFails, log, statusVars, gateVars, guildRoles, signatures, nInter>>

\* appendFile resolved: one line in the acceptance log
RulesLogOk(i) ==
    /\ inter[i].pc = "rulesLog"
    /\ signatures' = Append(signatures, [user |-> inter[i].actor, seq |-> inter[i].seq])
    /\ inter' = [inter EXCEPT ![i].pc = "rulesThanks", ![i].events = Append(@, "logged")]
    /\ UNCHANGED <<botVars, nFails, log, statusVars, gateVars, guildRoles, granted, nInter>>

\* appendFile rejected: logger.error, no line, the handler goes on
RulesLogFail(i) ==
    /\ inter[i].pc = "rulesLog"
    /\ nFails < MaxFailures
    /\ nFails' = nFails + 1
    /\ log' = log \cup {[level |-> "error", from |-> "rulesLog"]}
    /\ inter' = [inter EXCEPT ![i].pc = "rulesThanks", ![i].events = Append(@, "logFailed")]
    /\ UNCHANGED <<botVars, statusVars, gateVars, rulesVars, nInter>>

RulesTried == {"rulesFetch", "rulesAdd", "rulesThanks"}

CatchSwallowed(pc) == IF pc = "rulesThanks" THEN "rulesError" ELSE "rulesLog"

\* catch (error): the generic error reply is next
CatchStep(pc) == "rulesError"

\* members.fetch, roles.add or the editReply of the thanks rejected: the
\* catch logs the error and sends the generic message
RulesCatch(i) ==
    /\ inter[i].pc \in RulesTried
    /\ nFails < MaxFailures
    /\ nFails' = nFails + 1
    /\ log' = log \cup {[level |-> "error", from |-> inter[i].pc]}
    /\ inter' = [inter EXCEPT ![i].pc = CatchStep(inter[i].pc), ![i].events = Append(@, "caught")]
    /\ UNCHANGED <<botVars, statusVars, gateVars, rulesVars, nInter>>

RulesReplies == {"rulesReplyNoGuild", "rulesReplyAdmin", "rulesThanks", "rulesError"}

RulesReplyText(pc) ==
    CASE pc = "rulesReplyNoGuild" -> "noGuild"
      [] pc = "rulesReplyAdmin" -> "adminContact"
      [] pc = "rulesThanks" -> "thanks"
      [] pc = "rulesError" -> "genericError"
      [] OTHER -> "none"

\* the last reply of the handler resolved
RulesReplyOk(i) ==
    /\ inter[i].pc \in RulesReplies
    /\ inter' = [inter EXCEPT ![i].pc = "done",
                              ![i].replies = Append(@, RulesReplyText(inter[i].pc))]
    /\ UNCHANGED <<botVars, nFails, log, statusVars, gateVars, rulesVars, nInter>>

\* a reply outside the try was rejected: handleAcceptRules throws into the
\* catch of the interactionCreate listener
RulesReplyFail(i) ==
    /\ inter[i].pc \in {"rulesReplyNoGuild", "rulesReplyAdmin", "rulesDefer", "rulesError"}
    /\ nFails < MaxFailures
    /\ nFails' = nFails + 1
    /\ log' = log \cup {[level |-> "error", from |-> "interaction"]}
    /\ inter' = [inter EXCEPT ![i].pc = DispatcherCatch]
    /\ UNCHANGED <<botVars, statusVars, gateVars, rulesVars, nInter>>

(***************************************************************************)
(* handleButtonInteraction: the switch on interaction.customId             *)
(***************************************************************************)
KnownIds == {"openGym", "closeGym", "openGate", "acceptRules"}

CustomIds == KnownIds \cup {"acceptRulesV1"}

HandlerOfUnknownAsOpen(id) == IF id \in KnownIds THEN id ELSE "openGym"

\* the case that the switch takes
HandlerOf(id) == IF id \in KnownIds THEN id ELSE "default"

\* default: logger.debug and nothing else
UnknownButton(i, actor) ==
    /\ CanReceive(i)
    /\ nInter' = nInter + 1
    /\ inter' = [inter EXCEPT ![i] = Received("unknown", actor, "done")]
    /\ log' = log \cup {[level |-> "debug", from |-> "button"]}
    /\ UNCHANGED <<botVars, nFails, statusVars, gateVars, rulesVars>>

\* a button interaction with the custom id, pressed by actor in the guild or
\* in a direct message
ButtonInteraction(i, id, actor, inGuild) ==
    \/ HandlerOf(id) = "openGym" /\ StatusButton(i, "Ouverte", actor)
    \/ HandlerOf(id) = "closeGym" /\ StatusButton(i, "Fermee", actor)
    \/ HandlerOf(id) = "openGate" /\ GateButton(i, actor)
    \/ HandlerOf(id) = "acceptRules" /\ RulesButton(i, actor, inGuild)
    \/ HandlerOf(id) = "default" /\ UnknownButton(i, actor)

\* new GymStatusManager(images, defaultStatus): nothing tracked
InitStatusManager ==
    /\ status = DefaultStatus
    /\ lastActionBy = NoActor
    /\ statusMessage = 0
    /\ statusChan = {}
    /\ statusSeq = 1
    /\ nUpdates = 0

\* no SMS sent, no line in logs/portail.log
InitGateLog ==
    /\ sms = {}
    /\ portalLog = <<>>

\* nobody holds the role, no line in the acceptance log
InitRulesLog ==
    /\ granted = {}
    /\ signatures = <<>>

\* no interaction received
InitInter ==
    /\ inter = [i \in Slots |-> IdleInter]
    /\ nInter = 0

\* the services as main() constructs them, with no Twilio configuration
InitServices ==
    /\ build = "ts"
    /\ InitStatusManager
    /\ twilio = NoTwilio
    /\ InitGateLog
    /\ guildRoles = {}
    /\ InitRulesLog
    /\ InitInter

InitBot ==
    /\ nextId = InitNextId
    /\ categoryId = 0
    /\ runs = [e \in Entries |-> IdleRun]
    /\ lastRun = [ok |-> FALSE, today |-> 0, changed |-> FALSE]
    /\ log = {}
    /\ maintenanceTask = 0
    /\ reminderTasks = <<>>
    /\ cronTasks = <<>>
    /\ channelId = 0
    /\ fires = [t \in RuleTypes |-> IdleFire]
    /\ nReacts = 0
    /\ nPosts = 0
    /\ nFails = 0
    /\ nAdmin = 0
    /\ trashInit = "idle"
    /\ firedOn = [t \in RuleTypes |-> 0]

InitCommon ==
    /\ daysAhead \in 0..MaxDaysAhead
    /\ InitBot
    /\ InitServices

\* the bot is logged in, the ready event is due
Init ==
    /\ InitCommon
    /\ today = FirstDay
    /\ boot = "loggedIn"
    /\ channels \in InitChannelSets
    /\ messages = EmptyMessages(channels)

(***************************************************************************)
(* Spec: the reconciler run one invocation at a time                       *)
(***************************************************************************)
RunStep(e) ==
    \/ FetchGuildOk(e)
    \/ CreateCategoryOk(e)
    \/ DeleteOk(e)
    \/ CreateChannelOk(e)
    \/ SendHeaderOk(e)
    \/ SendSlotOk(e)
    \/ ReactOk(e)

Next ==
    \/ NoActiveRun /\ ReadyEvent
    \/ NoActiveRun /\ SetupCommand
    \/ NoActiveRun /\ MaintenanceFire
    \/ \E e \in Entries : RunStep(e)
    \/ NoActiveRun /\ NextDay

Spec == Init /\ [][Next]_vars

(***************************************************************************)
(* Claims on the reconciler                                                *)
(***************************************************************************)
\* the desired-slug set {slug(day+i) : 0 <= i < daysAhead}
DesiredSlugs(day) == {Slug(day + i) : i \in 0..(daysAhead - 1)}

\* the run of entry point e has entered syncPlanning
Syncing(e) == runs[e].pc # "idle" /\ runs[e].today # 0

\* the names of the text channels under the category the run worked on
NamesUnder(chs, cat) == {c.name : c \in {d \in chs : d.type = "text" /\ d.parent = cat}}

\* C1: a reconcile run in which no platform call failed ends with the names of
\* the text channels under the planning category equal to the desired-slug set
C1_Convergence ==
    \A e \in Entries :
        runs[e].pc = "done" =>
            NamesUnder(channels, runs[e].category) = DesiredSlugs(runs[e].today)

\* a run that both deleted and created channels has finished
C1_Witness ==
    \E e \in Entries :
        runs[e].pc = "done" /\ runs[e].deleted # {} /\ runs[e].created # {}

\* C2: a run that starts right after a run that completed without failure,
\* on the same day, issues no creation, no deletion and posts no message
C2_Idempotence ==
    \A e \in Entries :
        (Syncing(e) /\ runs[e].afterOk /\ runs[e].afterDay = runs[e].today) =>
            /\ runs[e].deleted = {}
            /\ runs[e].created = {}
            /\ runs[e].posts = 0
            /\ runs[e].pc \notin {"delete", "createChannel", "sendHeader", "sendSlot", "react"}

\* a second run has finished on the day of a first run that changed channels
C2_Witness ==
    \E e \in Entries :
        /\ runs[e].pc = "done"
        /\ runs[e].afterOk /\ runs[e].afterChanged
        /\ runs[e].afterDay = runs[e].today

\* the channels a run may delete: text, under the category, name not desired
OutOfWindow(e) ==
    {c \in runs[e].startChannels :
        c.type = "text" /\ c.parent = runs[e].category /\ c.name \notin DesiredSlugs(runs[e].today)}

\* C3: a run deletes only text channels under the planning category whose name
\* is not desired, nothing else disappears, and a run without failure deletes
\* all of them
C3_DeletionRule ==
    \A e \in Entries :
        Syncing(e) =>
            /\ runs[e].deleted \subseteq OutOfWindow(e)
            /\ runs[e].startChannels \ channels = runs[e].deleted
            /\ runs[e].pc = "done" => runs[e].deleted = OutOfWindow(e)

\* a run deleted a channel and left alone a channel with a stale name that is
\* not a text channel of the category
C3_Witness ==
    \E e \in Entries :
        /\ runs[e].pc = "done" /\ runs[e].deleted # {}
        /\ \E c \in channels \cap runs[e].startChannels :
              c.name = Slug(FirstDay - 1) /\ (c.type = "voice" \/ c.parent # runs[e].category)

\* the content of a freshly seeded channel
SeededChannel(label) ==
    <<[content |-> "", embed |-> <<"Planning pour">> \o label, author |-> Self,
       reacts |-> {}, mentions |-> <<>>]>>
    \o [k \in 1..Len(planningTimeSlots) |->
          [content |-> planningTimeSlots[k], embed |-> <<>>, author |-> Self,
           reacts |-> {Self}, mentions |-> <<>>]]

\* the desired slugs without a text channel under the category at the start
MissingSlugs(e) ==
    {n \in DesiredSlugs(runs[e].today) :
        ~\E c \in runs[e].startChannels :
            c.name = n /\ c.type = "text" /\ c.parent = runs[e].category}

\* C4: a run without failure creates exactly one channel per missing desired
\* slug, each holding the header and then one message per slot in order with
\* exactly the bot's reaction; channels that existed receive no message
C4_CreationRule ==
    \A e \in Entries :
        Syncing(e) =>
            /\ \A id \in (DOMAIN runs[e].startMessages) \cap (DOMAIN messages) :
                  messages[id] = runs[e].startMessages[id]
            /\ runs[e].pc = "done" =>
                  /\ \A n \in MissingSlugs(e) :
                        Cardinality({c \in channels : c.id \in runs[e].created /\ c.name = n}) = 1
                  /\ Cardinality(runs[e].created) = Cardinality(MissingSlugs(e))
                  /\ \A c \in channels :
                        c.id \in runs[e].created =>
                            /\ c.type = "text" /\ c.parent = runs[e].category
                            /\ \E i \in 0..(daysAhead - 1) :
                                  /\ c.name = Slug(runs[e].today + i)
                                  /\ messages[c.id] = SeededChannel(DayLabel(runs[e].today + i))

\* a run created a channel and skipped a desired channel that existed
C4_Witness ==
    \E e \in Entries :
        /\ runs[e].pc = "done" /\ runs[e].created # {}
        /\ MissingSlugs(e) # DesiredSlugs(runs[e].today)

(***************************************************************************)
(* SpecRemind: the reminder service beside the reconciler and the members  *)
(***************************************************************************)
\* the bot is started on one of the days covered, the day does not change
InitRemind ==
    /\ InitCommon
    /\ today \in FirstDay..(FirstDay + MaxDayAdvance)
    /\ boot = "loggedIn"
    /\ daysAhead = 1
    /\ channels \in {{AssoCat}, {AssoCat, PlanningCat}, {PlanningCat},
                     {AssoCat, PlanningCat,
                      [id |-> 3, name |-> Slug(FirstDay - 1), type |-> "text", parent |-> 1]}}
    /\ messages = EmptyMessages(channels)

NoActiveFire == \A t \in RuleTypes : ~FireActive(t)

\* no handler is in flight and the reminders of the day are still to come.
\* Member actions commute with the steps of the reconciler and of initialize()
\* (neither reads a reaction or a member's message), and what members do
\* after the reminder of the day reaches no later fire of the days covered:
\* they are explored between the handlers, before the fire.
Quiet ==
    /\ NoActiveRun
    /\ NoActiveFire
    /\ trashInit \notin {"fetchGuild", "createChannel"}
    /\ \A t \in RuleTypes : firedOn[t] # today

FireStep(t) ==
    \/ NoActiveRun /\ ReminderFire(t)
    \/ FireFetchGuildOk(t)
    \/ FireFetchMessagesOk(t)
    \/ FireFetchUsersOk(t)
    \/ FireFetchUserOk(t)
    \/ FireFetchUserFail(t)
    \/ FireSendOk(t)
    \/ FireFail(t)

NextRemind ==
    \/ Quiet /\ ReadyEvent
    \/ \E e \in Entries : RunStep(e)
    \/ trashInit = "idle" /\ boot = "loggedIn" /\ TrashInitialize
    \/ TrashFetchGuildOk
    \/ TrashCreateChannelOk
    \/ TrashInitFail
    \/ \E t \in RuleTypes : FireStep(t)
    \/ Quiet /\ \E u \in Accounts, ch \in DOMAIN messages :
                   \E idx \in DOMAIN messages[ch] : MemberReact(u, ch, idx)
    \/ Quiet /\ \E u \in Accounts, ch \in DOMAIN messages, b \in PostContents :
                   MemberPost(u, ch, b)
    \/ Quiet /\ AdminDeleteReminders

SpecRemind == InitRemind /\ [][NextRemind]_vars

(***************************************************************************)
(* Claims on the reminder correlator                                       *)
(***************************************************************************)
\* the messages of the planning channel of the day of fire t, as the guild
\* holds them now (none when the category or the channel is missing)
TodayMessages(t) ==
    LET cats == {c \in channels : c.type = "category" /\ c.name = CategoryName}
        chs == {c \in channels : c.type = "text" /\ c.name = Slug(fires[t].today)
                                 /\ \E k \in cats : c.parent = k.id}
    IN IF chs = {} THEN <<>>
       ELSE messages[(CHOOSE c \in chs : \A d \in chs : c.id <= d.id).id]

\* fire t has returned its recipients and the planning channel it read is as
\* it was when it read it
Quiescent(t) ==
    /\ fires[t].pc \in {"send", "done"}
    /\ TodayMessages(t) = fires[t].seen

\* the accounts holding the reaction on some message of the body
ReactorsOn(msgs, bodies) ==
    {u \in Accounts : \E i \in DOMAIN msgs : msgs[i].content \in bodies /\ u \in msgs[i].reacts}

\* the most recent message with that body among the FetchLimit most recent
LatestWithBody(msgs, body) ==
    LET is == {i \in DOMAIN msgs : i > Len(msgs) - FetchLimit /\ msgs[i].content = body}
    IN IF is = {} THEN 0 ELSE CHOOSE i \in is : \A j \in is : j <= i

\* the accounts holding the reaction on the most recent message of a body
LatestReactors(msgs, bodies) ==
    {u \in Accounts : \E b \in bodies :
        LatestWithBody(msgs, b) # 0 /\ u \in msgs[LatestWithBody(msgs, b)].reacts}

\* the whole slot loop of getUsersFromPlanning on one reading of the channel
RECURSIVE CollectUsers(_, _, _, _)
CollectUsers(set, fetched, msgs, slots) ==
    IF slots = <<>> THEN set
    ELSE LET m == FindSlotMessage(fetched, msgs, Head(slots))
             next == IF m = 0 \/ msgs[m].reacts = {} THEN set
                     ELSE AddReacted(set, msgs[m].reacts, AccountOrder)
         IN CollectUsers(next, fetched, msgs, Tail(slots))

\* the relevant slots in every order
SlotOrders ==
    {[i \in 1..3 |-> relevantTimeSlots[p[i]]] :
        p \in {q \in [1..3 -> 1..3] : \A a, b \in 1..3 : a # b => q[a] # q[b]}}

NoRepeat(seq) == \A i, j \in DOMAIN seq : i # j => seq[i] # seq[j]

IsReminder(m) == m.content \in {"Rappel: Poubelle noire", "Rappel: Poubelle jaune"}

\* C6: no recipient appears twice, in the recipient set or in the mentions of
\* a reminder, and a reminder mentions as many users as there are recipients
C6_Dedup ==
    /\ \A t \in RuleTypes :
          /\ NoRepeat(fires[t].usersSet) /\ NoRepeat(fires[t].users)
          /\ (fires[t].pc = "done" /\ fires[t].channel \in DOMAIN messages) =>
                LET m == messages[fires[t].channel][Len(messages[fires[t].channel])]
                IN /\ m.mentions = fires[t].users
                   /\ Len(m.mentions) = Cardinality(Range(fires[t].users))
    /\ \A id \in DOMAIN messages : \A i \in DOMAIN messages[id] :
          IsReminder(messages[id][i]) => NoRepeat(messages[id][i].mentions)

\* A and B hold the reaction on the first relevant slot, B and C on the
\* second, and the reminder was sent with A, B and C as mentions
C6_Witness ==
    \E t \in RuleTypes :
        /\ fires[t].pc = "done" /\ Range(fires[t].users) = {"A", "B", "C"}
        /\ \E i, j \in DOMAIN fires[t].seen :
              /\ fires[t].seen[i].content = relevantTimeSlots[1]
              /\ fires[t].seen[j].content = relevantTimeSlots[2]
              /\ {"A", "B"} \subseteq fires[t].seen[i].reacts
              /\ {"B", "C"} \subseteq fires[t].seen[j].reacts
        /\ fires[t].channel \in DOMAIN messages
        /\ Len(messages[fires[t].channel][Len(messages[fires[t].channel])].mentions) = 3

FireEnded(t) == fires[t].pc \in {"done", "failed", "aborted"}

PlanningData ==
    LET cats == {c \in channels : c.type = "category" /\ c.name = CategoryName}
        chs == {c \in channels : \E k \in cats : c.parent = k.id}
    IN [cats |-> cats, chs |-> chs,
        msgs |-> [id \in {c.id : c \in chs} \cap DOMAIN messages |-> messages[id]]]

\* C8: no step of a reminder fire changes the planning channels, their
\* messages or their reactions
C8_ReadOnly == [][(\E t \in RuleTypes : FireStep(t)) => PlanningData' = PlanningData]_vars

\* a fire read a seeded planning channel and sent its reminder
C8_Witness ==
    \E t \in RuleTypes :
        fires[t].pc = "done" /\ fires[t].planning # 0 /\ Len(fires[t].seen) > 1

(***************************************************************************)
(* SpecBoot: the process as index.ts and registerEvents wire it            *)
(***************************************************************************)
\* main() has built the services and is about to register the commands
InitBoot ==
    /\ InitCommon
    /\ today = FirstDay
    /\ boot = "registering"
    /\ channels \in {{AssoCat}, {AssoCat, PlanningCat},
                     {AssoCat, PlanningCat,
                      [id |-> 3, name |-> Slug(FirstDay - 1), type |-> "text", parent |-> 1]}}
    /\ messages = EmptyMessages(channels)

NextBoot ==
    \/ RegisterCommands
    \/ LoginOk
    \/ LoginFail
    \/ NoActiveRun /\ ReadyEvent
    \/ NoActiveRun /\ SetupCommand
    \/ NoActiveRun /\ MaintenanceFire
    \/ \E e \in Entries : RunStep(e)
    \/ \E e \in Entries : RunFail(e)

SpecBoot == InitBoot /\ [][NextBoot]_vars

\* the maintenance timer is scheduled
MaintenanceScheduled ==
    /\ maintenanceTask \in DOMAIN cronTasks
    /\ cronTasks[maintenanceTask] = [kind |-> "maintenance", expr |-> MaintenanceCron]

\* the reminder timer of rule c is scheduled on its weekday and hour
ReminderScheduled(c) ==
    \E id \in Range(reminderTasks) :
        /\ id \in DOMAIN cronTasks
        /\ cronTasks[id] = [kind |-> c.type, expr |-> ReminderCron(c)]

\* C9: once the startup initialization has completed, the maintenance timer
\* and the reminder timer of every rule (noir on Wednesday at 20, jaune on
\* Thursday at 20) are scheduled
C9_AllScheduled ==
    boot = "initialized" =>
        /\ MaintenanceScheduled
        /\ \A i \in DOMAIN reminderConfigs : ReminderScheduled(reminderConfigs[i])

(***************************************************************************)
(* SpecTimers: initialize() of both services called again and again        *)
(***************************************************************************)
InitTimers ==
    /\ InitCommon
    /\ today = FirstDay
    /\ boot = "loggedIn"
    /\ daysAhead = 1
    /\ channels \in {{AssoCat}, {PlanningCat},
                     {AssoCat, PlanningCat,
                      [id |-> 3, name |-> Slug(FirstDay - 1), type |-> "text", parent |-> 1]}}
    /\ messages = EmptyMessages(channels)

NextTimers ==
    \/ NoActiveRun /\ ReadyEvent
    \/ NoActiveRun /\ Reinitialize
    \/ NoActiveRun /\ SetupCommand
    \/ NoActiveRun /\ MaintenanceFire
    \/ \E e \in Entries : RunStep(e)
    \/ \E e \in Entries : RunFail(e)
    \/ TrashInitialize
    \/ TrashFetchGuildOk
    \/ TrashCreateChannelOk
    \/ TrashInitFail

SpecTimers == InitTimers /\ [][NextTimers]_vars

\* the scheduled tasks of a kind
TasksOf(kind) == {id \in DOMAIN cronTasks : cronTasks[id].kind = kind}

\* C10: whatever initialize() calls and resync commands have run, at most one
\* maintenance task and at most one reminder task per rule are scheduled, and
\* they are the ones the services hold
C10_OneTimerEach ==
    /\ Cardinality(TasksOf("maintenance")) <= 1
    /\ TasksOf("maintenance") \subseteq {maintenanceTask}
    /\ \A t \in RuleTypes :
          /\ Cardinality(TasksOf(t)) <= 1
          /\ TasksOf(t) \subseteq Range(reminderTasks)

\* initialize() has completed a second time, with the reminders scheduled
C10_Witness ==
    /\ runs["init"].pc = "done" /\ runs["init"].hadTask
    /\ Cardinality(TasksOf("maintenance")) = 1
    /\ \A t \in RuleTypes : Cardinality(TasksOf(t)) = 1

(***************************************************************************)
(* SpecFires: the timers of both services firing over the days, with       *)
(* platform calls that fail                                                *)
(***************************************************************************)
InitFires ==
    /\ InitCommon
    /\ today = FirstDay
    /\ boot = "loggedIn"
    /\ daysAhead = 1
    /\ channels \in {{AssoCat}, {AssoCat, PlanningCat}}
    /\ messages = EmptyMessages(channels)

NextFires ==
    \/ NoActiveRun /\ NoActiveFire /\ ReadyEvent
    \/ NoActiveRun /\ NoActiveFire /\ MaintenanceFire
    \/ \E e \in Entries : RunStep(e)
    \/ \E e \in Entries : RunFail(e)
    \/ trashInit = "idle" /\ NoActiveRun /\ TrashInitialize
    \/ TrashFetchGuildOk
    \/ TrashCreateChannelOk
    \/ \E t \in RuleTypes : NoActiveRun /\ NoActiveFire /\ ReminderFire(t)
    \/ \E t \in RuleTypes : FireFetchGuildOk(t)
    \/ \E t \in RuleTypes : FireFetchMessagesOk(t)
    \/ \E t \in RuleTypes : FireFetchUsersOk(t)
    \/ \E t \in RuleTypes : FireSendOk(t)
    \/ \E t \in RuleTypes : FireFail(t)
    \/ NoActiveRun /\ NoActiveFire /\ NextDay

SpecFires == InitFires /\ [][NextFires]_vars

\* the error of a fire of that timer is in the log
FireErrorLogged(from) == [level |-> "error", from |-> from] \in log

\* C11: a failure in a fire is logged by that fire and leaves every timer
\* scheduled: after a failed maintenance fire the maintenance timer is
\* scheduled and its next tick can start a run, and after a failed fire of a
\* reminder rule the timers of both rules are scheduled
C11_FailureIsolated ==
    /\ runs["timer"].pc = "failed" => FireErrorLogged("timer")
    /\ FireErrorLogged("timer") =>
          /\ MaintenanceScheduled
          /\ (NoActiveRun /\ NoActiveFire) => ENABLED MaintenanceFire
    /\ \A t \in RuleTypes :
          /\ fires[t].pc = "failed" => FireErrorLogged(t)
          /\ FireErrorLogged(t) =>
                /\ MaintenanceScheduled \/ maintenanceTask = 0
                /\ \A i \in DOMAIN reminderConfigs : ReminderScheduled(reminderConfigs[i])

\* the fire of noir failed on Wednesday; on Thursday a maintenance fire ran to
\* its end and the fire of jaune sent its reminder
C11_Witness ==
    /\ fires["noir"].pc = "failed"
    /\ runs["timer"].pc = "done" /\ runs["timer"].today = FirstDay + 1
    /\ fires["jaune"].pc = "done" /\ fires["jaune"].sent = 1

(***************************************************************************)
(* SpecRace: the entry points of the reconciler interleaved at their       *)
(* awaits                                                                  *)
(***************************************************************************)
InitRace ==
    /\ InitCommon
    /\ today = FirstDay
    /\ boot = "loggedIn"
    /\ daysAhead = 1
    /\ channels \in {{AssoCat}, {AssoCat, PlanningCat}}
    /\ messages = EmptyMessages(channels)

\* initialize() runs alone; /gym setup and the maintenance tick may land while
\* the other is parked on an await; the only calls that reject are those on a
\* channel the other run has deleted
NextRace ==
    \/ NoActiveRun /\ ReadyEvent
    \/ ~Active("init") /\ SetupCommand
    \/ ~Active("init") /\ MaintenanceFire
    \/ \E e \in Entries : RunStep(e)
    \/ \E e \in Entries : ~CanSucceed(e) /\ RunFail(e)
    \/ NoActiveRun /\ NextDay

SpecRace == InitRace /\ [][NextRace]_vars

\* the text channels of that name under the category
ChannelsNamed(cat, name) ==
    {c \in channels : c.type = "text" /\ c.parent = cat /\ c.name = name}

\* C12: once a manual resync and a maintenance fire that overlapped have
\* both returned without error, the category holds exactly one text channel
\* per desired slug and no text channel outside the window
C12_OnePerSlug ==
    (/\ runs["setup"].pc = "done" /\ runs["timer"].pc = "done"
     /\ runs["setup"].overlapped /\ runs["timer"].overlapped
     /\ runs["setup"].today = runs["timer"].today) =>
        /\ \A n \in DesiredSlugs(runs["timer"].today) :
              Cardinality(ChannelsNamed(runs["timer"].category, n)) = 1
        /\ NamesUnder(channels, runs["timer"].category) = DesiredSlugs(runs["timer"].today)

(***************************************************************************)
(* SpecStatus: /gym status and the open and close buttons, the handlers    *)
(* interleaved at their awaits, under either build of GymStatusManager     *)
(***************************************************************************)
\* the planning and the reminders at rest after the ready event
InitBotAtRest ==
    /\ today = FirstDay
    /\ daysAhead = 0
    /\ channels = {AssoCat}
    /\ messages = EmptyMessages(channels)
    /\ boot = "initialized"
    /\ InitBot

InitStatus ==
    /\ InitBotAtRest
    /\ build \in Builds
    /\ InitStatusManager
    /\ twilio = NoTwilio
    /\ InitGateLog
    /\ guildRoles = {}
    /\ InitRulesLog
    /\ InitInter

NextStatus ==
    \/ \E i \in Slots, inText \in BOOLEAN : GymStatusCommand(i, inText)
    \/ \E i \in Slots : StatusDeferOk(i)
    \/ \E i \in Slots, st \in Statuses, actor \in Actors : StatusButton(i, st, actor)
    \/ \E i \in Slots : StatusDeleteOk(i)
    \/ \E i \in Slots : StatusDeleteFail(i)
    \/ \E i \in Slots : StatusSendOk(i)
    \/ \E i \in Slots : StatusSendFail(i)
    \/ \E i \in Slots : StatusEditOk(i)
    \/ \E i \in Slots : StatusEditFail(i)
    \/ \E i \in Slots : StatusReplyOk(i)
    \/ \E i \in Slots : StatusReplyFail(i)
    \/ \E i \in Slots : StatusDeferUpdateOk(i)
    \/ \E i \in Slots : StatusDeferUpdateFail(i)
    \/ \E i \in Slots : StatusErrorReplyOk(i)

SpecStatus == InitStatus /\ [][NextStatus]_vars

LastOf(seq) == seq[Len(seq)]

PublishReturns(i) == inter[i].pc = "pubSend" /\ inter'[i].pc = "pubReply"

\* the tracked message is one that this step posted
TracksNewMessage ==
    /\ statusMessage' \notin StatusIds
    /\ statusMessage' \in {m.id : m \in statusChan'}

TrackedShowsCurrent ==
    /\ statusMessage \in StatusIds
    /\ StatusContent(statusMessage).embed = buildEmbed(status, lastActionBy)

\* the delete of publishStatus comes before its post, and a failed delete is
\* logged and followed by the post; when publishStatus returns the tracked
\* message is the one just posted
PublishDeletesThenPosts(i) ==
    /\ (inter[i].pc = "pubDelete" /\ inter'[i].pc # "pubDelete") =>
          /\ inter'[i].pc = "pubSend"
          /\ LastOf(inter'[i].events) = "deleteFailed" =>
                [level |-> "warn", from |-> "pubDelete"] \in log'
    /\ (inter[i].pc = "pubSend" /\ inter[i].old # 0) =>
          inter[i].events \in {<<"deleted">>, <<"deleteFailed">>}
    /\ PublishReturns(i) =>
          /\ TracksNewMessage
          /\ inter[i].old \notin {m.id : m \in statusChan'} \/ "deleteFailed" \in Range(inter[i].events)

\* C13: publishStatus first attempts to delete the tracked message and then
\* posts a new one; a failed delete is logged and the post follows; when
\* publishStatus returns the tracked message is the newly posted one, and it
\* shows the current status and last actor whenever no button press was
\* handled since the post was issued
C13_PublishReposts ==
    [][\A i \in Slots :
          /\ PublishDeletesThenPosts(i)
          /\ (PublishReturns(i) /\ inter[i].issued = nUpdates) => TrackedShowsCurrent'
      ]_vars

\* the claim as stated: the message tracked when publishStatus returns always
\* shows the current status and last actor
C13_ShowsCurrent ==
    [][\A i \in Slots : PublishReturns(i) => TrackedShowsCurrent']_vars

\* a second /gym status after alice opened the room: the delete of the first
\* message failed, the new message is tracked and shows Ouverte by alice
C13_Witness ==
    \E i \in Slots :
        /\ inter[i].kind = "gymStatus"
        /\ inter[i].pc = "pubReply"
        /\ inter[i].events = <<"deleteFailed", "sent">>
        /\ [level |-> "warn", from |-> "pubDelete"] \in log
        /\ statusMessage # inter[i].old
        /\ statusMessage \in StatusIds
        /\ StatusContent(statusMessage).embed = buildEmbed("Ouverte", "alice")
        /\ status = "Ouverte"

\* a refresh of handler i ends in this step without an error
RefreshSucceeds(i) ==
    /\ inter[i].pc \in {"refEdit", "refSend"}
    /\ inter'[i].pc \in {"btnReply", "done"}
    /\ LastOf(inter'[i].events) \in {"edited", "sent"}

\* C14: a refresh with a tracked message is a repost: the old message is
\* deleted (best effort), a new message is posted and becomes the tracked
\* one, so the tracked id changes on every successful refresh; the existing
\* message is never edited in place
C14_RefreshIsRepost ==
    [][\A i \in Slots :
          RefreshSucceeds(i) =>
              /\ inter'[i].events \in {<<"deleted", "sent">>, <<"deleteFailed", "sent">>}
              /\ TracksNewMessage
              /\ statusMessage' # inter[i].old
              /\ UNCHANGED {m \in statusChan : m.id = inter[i].old}
      ]_vars

\* every payload rendered so far: the messages of the status channel and the
\* payloads of the sends and edits in flight
RenderedPayloads ==
    {m.content : m \in statusChan}
    \cup {inter[i].payload : i \in Slots}

\* C15: in every status message rendered by publish or refresh the open
\* button is disabled exactly when the rendered status is Ouverte, the close
\* button exactly when it is Fermee, and the gate button never, so exactly
\* one of open and close is enabled
C15_ButtonsFollowStatus ==
    \A c \in RenderedPayloads :
        /\ c.row.openDisabled <=> c.embed.status = "Ouverte"
        /\ c.row.closeDisabled <=> c.embed.status = "Fermee"
        /\ ~c.row.gateDisabled
        /\ c.row.openDisabled # c.row.closeDisabled

\* a message published while closed is still in the channel next to the one
\* a refresh posted after alice opened the room
C15_Witness ==
    /\ \E m \in statusChan :
          m.content.embed = buildEmbed("Ouverte", "alice") /\ m.content.row.openDisabled
    /\ \E m \in statusChan :
          m.content.embed = buildEmbed("Fermee", NoActor) /\ m.content.row.closeDisabled
    /\ \E i \in Slots : inter[i].kind = "button" /\ inter[i].pc = "done"

(***************************************************************************)
(* SpecGate: presses of the gate button under every gate configuration,    *)
(* the handlers interleaved at their awaits                                *)
(***************************************************************************)
InitGate ==
    /\ InitBotAtRest
    /\ build = "ts"
    /\ InitStatusManager
    /\ twilio \in TwilioConfigs
    /\ InitGateLog
    /\ guildRoles = {}
    /\ InitRulesLog
    /\ InitInter

NextGate ==
    \/ \E i \in Slots, actor \in Actors : GateButton(i, actor)
    \/ \E i \in Slots : GateDeferOk(i)
    \/ \E i \in Slots : GateSendOk(i)
    \/ \E i \in Slots : GateSendFail(i)
    \/ \E i \in Slots : GateSummaryOk(i)
    \/ \E i \in Slots : GateLogOk(i)
    \/ \E i \in Slots : GateLogFail(i)
    \/ \E i \in Slots : GateReplyOk(i)
    \/ \E i \in Slots : GateReplyFail(i)

SpecGate == InitGate /\ [][NextGate]_vars

GateHandlers == {i \in Slots : inter[i].kind = "openGate"}

\* C16: a gate trigger received without credentials, or without any number,
\* gets the unavailable reply and nothing else happens: no SMS is attempted
\* and no line is appended to the request log
C16_UnavailableDoesNothing ==
    (~twilio.configured \/ twilio.numbers = <<>>) =>
        /\ sms = {}
        /\ portalLog = <<>>
        /\ \A i \in GateHandlers :
              /\ inter[i].pc \in GateEarlyReplies \cup {"done", "failed"}
              /\ inter[i].pc = "done" =>
                    inter[i].replies = <<IF twilio.configured THEN "noNumbers" ELSE "unavailable">>

\* two triggers answered unavailable: the three numbers are set, the
\* credentials are not
C16_Witness ==
    /\ ~twilio.configured
    /\ Len(twilio.numbers) = GateNumberSlots
    /\ \A i \in Slots :
          /\ inter[i].kind = "openGate"
          /\ inter[i].pc = "done"
          /\ inter[i].replies = <<"unavailable">>

\* C17: a trigger with credentials and n >= 1 numbers attempts one SMS per
\* number in the order of the configuration; a failed send is logged and
\* recorded and the remaining numbers are still tried; the summary has one
\* entry per number
C17_OneSmsPerNumber ==
    \A i \in GateHandlers :
        LET h == inter[i]
            n == Len(twilio.numbers)
            mine == SmsOf(h.seq)
        IN  /\ Cardinality(mine) = Len(h.results)
            /\ Len(h.results) <= n
            /\ \A j \in 1..Len(h.results) :
                  /\ h.results[j].to = twilio.numbers[j]
                  /\ [to |-> twilio.numbers[j], ok |-> h.results[j].ok, seq |-> h.seq, k |-> j] \in mine
                  /\ ~h.results[j].ok => [level |-> "error", from |-> "gateSend"] \in log
            /\ (mine # {} /\ h.pc # "gateSend") => Len(h.results) = n
            /\ "summary" \in Range(h.replies) => Len(h.results) = n /\ n >= 1

\* three numbers: the send to the first failed, the two others went out and
\* the summary has the three entries
C17_Witness ==
    \E i \in GateHandlers :
        /\ inter[i].pc = "done"
        /\ inter[i].replies = <<"defer", "summary">>
        /\ inter[i].results = <<[to |-> "+331", ok |-> FALSE], [to |-> "+332", ok |-> TRUE],
                                 [to |-> "+333", ok |-> TRUE]>>
        /\ Cardinality(SmsOf(inter[i].seq)) = 3

\* C18: every trigger that passes the configuration checks appends exactly
\* one line to the request log whether the sends succeeded or not, and the
\* line is appended after the sends and before the summary is reported
C18_LoggedBeforeSummary ==
    \A i \in GateHandlers :
        LET sendsDone == inter[i].k > Len(twilio.numbers)
            lines == Len(LinesOf(portalLog, inter[i].seq))
        IN  /\ lines <= 1
            /\ lines = 1 => sendsDone
            /\ "summary" \in Range(inter[i].events) => inter[i].events[1] = "logged"
            /\ (sendsDone /\ inter[i].pc \in {"done", "failed"}) => lines = 1

(***************************************************************************)
(* SpecRules: presses of the accept-rules button under every set of guild  *)
(* roles, the handlers interleaved at their awaits                         *)
(***************************************************************************)
InitRules ==
    /\ InitBotAtRest
    /\ build = "ts"
    /\ InitStatusManager
    /\ twilio = NoTwilio
    /\ InitGateLog
    /\ guildRoles \in SUBSET RoleNames
    /\ InitRulesLog
    /\ InitInter

NextRules ==
    \/ \E i \in Slots, user \in Actors, inGuild \in BOOLEAN : RulesButton(i, user, inGuild)
    \/ \E i \in Slots : RulesStepOk(i)
    \/ \E i \in Slots : RulesAddOk(i)
    \/ \E i \in Slots : RulesLogOk(i)
    \/ \E i \in Slots : RulesLogFail(i)
    \/ \E i \in Slots : RulesCatch(i)
    \/ \E i \in Slots : RulesReplyOk(i)
    \/ \E i \in Slots : RulesReplyFail(i)

SpecRules == InitRules /\ [][NextRules]_vars

RulesHandlers == {i \in Slots : inter[i].kind = "acceptRules"}

Before(events, a, b) ==
    \E x, y \in DOMAIN events : x < y /\ events[x] = a /\ events[y] = b

\* C20: a line of the acceptance log is appended only after the grant
\* succeeded; a failed member fetch or grant is caught and logged, the generic
\* error is reported and no line is appended; after a successful grant one
\* line is appended unless the write to the file fails, which is logged,
\* and the requester is confirmed unless the confirmation cannot be
\* delivered, which is caught and answered with the generic error
C20_LogOnlyAfterGrant ==
    \A i \in RulesHandlers :
        LET h == inter[i]
            lines == Len(LinesOf(signatures, h.seq))
            wasGranted == "granted" \in Range(h.events)
        IN  /\ lines <= 1
            /\ lines = 1 => /\ Before(h.events, "granted", "logged")
                             /\ h.actor \in granted
            /\ "caught" \in Range(h.events) =>
                  \E pc \in RulesTried : [level |-> "error", from |-> pc] \in log
            /\ (~wasGranted /\ "caught" \in Range(h.events)) =>
                  /\ lines = 0
                  /\ h.pc \in {"rulesError", "done", "failed"}
                  /\ h.pc = "done" => h.replies = <<"defer", "genericError">>
            /\ (wasGranted /\ h.pc = "done") =>
                  /\ lines = 1 \/ [level |-> "error", from |-> "rulesLog"] \in log
                  /\ \/ h.replies = <<"defer", "thanks">>
                     \/ h.replies = <<"defer", "genericError">> /\ LastOf(h.events) = "caught"

\* the claim as stated: after a successful grant exactly one line is
\* appended and the requester is confirmed
C20_GrantLogsOnce ==
    \A i \in RulesHandlers :
        ("granted" \in Range(inter[i].events) /\ inter[i].pc = "done") =>
            /\ Len(LinesOf(signatures, inter[i].seq)) = 1
            /\ inter[i].replies = <<"defer", "thanks">>

\* alice was granted the role, her line is in the log and she was thanked;
\* the grant of bob failed and he got the generic error
C20_Witness ==
    /\ granted = {"alice"}
    /\ Len(signatures) = 1 /\ signatures[1].user = "alice"
    /\ \E i, j \in RulesHandlers :
          /\ inter[i].actor = "alice" /\ inter[i].pc = "done"
          /\ inter[i].replies = <<"defer", "thanks">>
          /\ inter[j].actor = "bob" /\ inter[j].pc = "done"
          /\ inter[j].replies = <<"defer", "genericError">>
          /\ inter[j].events = <<"caught">>

(***************************************************************************)
(* SpecDispatch: the interactionCreate listener with every command and     *)
(* every button, one interaction after the other                           *)
(***************************************************************************)
InitDispatch ==
    /\ InitBotAtRest
    /\ build \in Builds
    /\ InitStatusManager
    /\ twilio \in {NoTwilio, [configured |-> TRUE, numbers |-> <<"+331">>]}
    /\ InitGateLog
    /\ guildRoles = {MemberRoleName}
    /\ InitRulesLog
    /\ InitInter

\* the steps of the handlers of the status command and of the buttons
HandlerStep(i) ==
    \/ StatusDeferOk(i)
    \/ StatusDeferUpdateOk(i)
    \/ StatusDeleteOk(i)
    \/ StatusSendOk(i)
    \/ StatusEditOk(i)
    \/ StatusReplyOk(i)
    \/ StatusErrorReplyOk(i)
    \/ GateDeferOk(i)
    \/ GateSendOk(i)
    \/ GateSummaryOk(i)
    \/ GateLogOk(i)
    \/ GateReplyOk(i)
    \/ RulesStepOk(i)
    \/ RulesAddOk(i)
    \/ RulesLogOk(i)
    \/ RulesReplyOk(i)

\* a platform call, an SMS or a file write of a handler is rejected
HandlerFail(i) ==
    \/ StatusDeferUpdateFail(i)
    \/ StatusDeleteFail(i)
    \/ StatusSendFail(i)
    \/ StatusEditFail(i)
    \/ StatusReplyFail(i)
    \/ GateSendFail(i)
    \/ GateLogFail(i)
    \/ GateReplyFail(i)
    \/ RulesLogFail(i)
    \/ RulesCatch(i)
    \/ RulesReplyFail(i)

NextDispatch ==
    \/ \E i \in Slots, inText \in BOOLEAN : NoActiveInter /\ GymStatusCommand(i, inText)
    \/ \E i \in Slots, id \in CustomIds, actor \in Actors, inGuild \in BOOLEAN :
          NoActiveInter /\ ButtonInteraction(i, id, actor, inGuild)
    \/ \E i \in Slots : HandlerStep(i)
    \/ \E i \in Slots : HandlerFail(i)

SpecDispatch == InitDispatch /\ [][NextDispatch]_vars

DispatcherLogged == [level |-> "error", from |-> "interaction"] \in log

\* the listener is still there to take an interaction
StillDispatching ==
    /\ ENABLED (\E i \in Slots : GymStatusCommand(i, TRUE))
    /\ ENABLED (\E i \in Slots : ButtonInteraction(i, "openGate", "alice", TRUE))

\* C21: an error thrown by a command or button handler is caught by the
\* interactionCreate listener and logged; it does not leave the listener,
\* the process keeps running and a later interaction is dispatched
C21_ErrorsCaught ==
    /\ \A i \in Slots :
          /\ inter[i].pc # "crashed"
          /\ inter[i].pc = "failed" => DispatcherLogged
    /\ (NoActiveInter /\ nInter < MaxInteractions) => StillDispatching

\* the listener caught an error of an earlier handler, and the /gym status
\* that came afterwards was carried out
C21_Witness ==
    /\ DispatcherLogged
    /\ nFails = MaxFailures
    /\ \E i \in Slots :
          /\ inter[i].kind = "gymStatus"
          /\ inter[i].seq > 1
          /\ inter[i].pc = "done"
          /\ inter[i].replies = <<"defer", "published">>
          /\ inter[i].events = <<"sent">>

\* C22: a button whose custom id is none of openGym, closeGym, openGate,
\* acceptRules is logged and ignored: status, last actor, tracked message,
\* channels, roles, log files and SMS stay as they are and nothing is replied
C22_UnknownIgnored ==
    [][\A i \in Slots, id \in CustomIds \ KnownIds, actor \in Actors, inGuild \in BOOLEAN :
          ButtonInteraction(i, id, actor, inGuild) =>
              /\ UNCHANGED <<statusVars, gateVars, rulesVars, platformVars>>
              /\ log' \ log \subseteq {[level |-> "debug", from |-> "button"]}
              /\ inter'[i].pc = "done"
              /\ inter'[i].replies = <<>>
      ]_vars

\* a status message is tracked, alice holds the role, and the press of a
\* button with an unknown id has been logged
C22_Witness ==
    /\ [level |-> "debug", from |-> "button"] \in log
    /\ statusMessage # 0
    /\ granted # {}
    /\ \E i \in Slots : inter[i].kind = "unknown" /\ inter[i].pc = "done"

\* C23: /gym status publishes only from a guild text channel; from anywhere
\* else it replies that the command is unavailable, and no status message is
\* posted or deleted and the tracked reference stays as it was
C23_OnlyInTextChannel ==
    [][\A i \in Slots :
          /\ GymStatusCommand(i, FALSE) =>
                 inter'[i].pc = "replyUnavailable" /\ UNCHANGED statusVars
          /\ (/\ inter[i].kind = "gymStatus"
              /\ ~inter[i].inText
              /\ inter'[i] # inter[i]
              /\ inter'[i].seq = inter[i].seq) =>
                 /\ UNCHANGED statusVars
                 /\ inter'[i].events = <<>>
                 /\ inter'[i].pc \in {"done", DispatcherCatch}
                 /\ inter'[i].pc = "done" => inter'[i].replies = <<"unavailable">>
          /\ (/\ inter[i].kind = "gymStatus"
              /\ inter'[i].seq = inter[i].seq
              /\ inter'[i].events # inter[i].events) => inter[i].inText
      ]_vars

\* a status message is tracked and a /gym status from a channel that is
\* not a text channel has been answered
C23_Witness ==
    /\ statusMessage # 0
    /\ \E i \in Slots :
          /\ inter[i].kind = "gymStatus"
          /\ ~inter[i].inText
          /\ inter[i].pc = "done"
          /\ inter[i].replies = <<"unavailable">>

\* C24: the reply shown after a failure is the same whatever the internal
\* detail of the failure was: no reply of a status, gate or rules handler
\* carries the message of the error that caused it
C24_NoDetailShown == \A i \in Slots : inter[i].shown \notin Details

\* the label with every maximal run of whitespace turned into one hyphen
HyphenatedRuns(label) ==
    LET first == SelectSeq([k \in DOMAIN label |-> k],
                           LAMBDA k : ~IsSpace(label[k]) \/ k = 1 \/ ~IsSpace(label[k - 1]))
    IN [j \in DOMAIN first |-> IF IsSpace(label[first[j]]) THEN "-" ELSE label[first[j]]]

\* weekday, day of the month and month of a day, in lower case
LowerCaseLabel(n) ==
    [k \in 1..5 |->
        LowerTok(<<WeekdayNames[GetDay(n) + 1], " ", ToString(DateOf(n).day), " ",
                   MonthNames[DateOf(n).month]>>[k])]

\* C25: the planning window of a run is a function of its day and of
\* daysAhead alone: it has daysAhead entries (none when daysAhead is 0),
\* entry i is made from the date today + i, its slug is the lower-case label
\* with whitespace runs turned into hyphens, so that two runs of one day
\* compute the same window
C25_WindowIsFunction ==
    \A e \in Entries :
        Syncing(e) =>
            /\ Len(runs[e].desired) = daysAhead
            /\ \A i \in 1..Len(runs[e].desired) :
                  /\ runs[e].desired[i].label = LowerCaseLabel(runs[e].today + i - 1)
                  /\ runs[e].desired[i].name = HyphenatedRuns(runs[e].desired[i].label)

\* a second run of the same day has computed a window that crosses the end
\* of September
C25_Witness ==
    \E e \in Entries :
        /\ Syncing(e)
        /\ runs[e].afterOk /\ runs[e].afterDay = runs[e].today
        /\ Len(runs[e].desired) > 1
        /\ runs[e].desired[1].label[5] # runs[e].desired[2].label[5]

\* a run has computed the empty window
C25_EmptyWindow ==
    \E e \in Entries : Syncing(e) /\ daysAhead = 0 /\ runs[e].desired = <<>>

(***************************************************************************)
(* SpecWindow: the window of syncPlanning for long values of daysAhead      *)
(***************************************************************************)
\* five years with two leap days: the shortest distance between two dates
\* of the same weekday, day of the month and month
ShortestRepeat == 5 * 365 + 2

WindowSizes ==
    (0..MaxSmallWindow) \cup {365, 366, ShortestRepeat - 1} \cup (ShortestRepeat..MaxLongWindow)

WindowStarts == {FirstDay, LeapStart}

InitWindow ==
    /\ today \in WindowStarts
    /\ daysAhead \in WindowSizes
    /\ channels = {AssoCat}
    /\ messages = EmptyMessages(channels)
    /\ boot = "initialized"
    /\ InitBot
    /\ InitServices

\* the first loop of syncPlanning: desiredChannels and allowedNames are built
WindowComputed(e) ==
    /\ runs[e].pc = "idle"
    /\ runs' = [runs EXCEPT ![e] = [IdleRun EXCEPT !.pc = "window", !.today = today,
                                                   !.desired = DesiredChannels(today, daysAhead)]]
    /\ UNCHANGED <<platformVars, categoryId, lastRun, timerVars, reminderVars, envVars, log,
                   boot, svcVars>>

NextWindow == \E e \in Entries : WindowComputed(e)

SpecWindow == InitWindow /\ [][NextWindow]_vars

\* allowedNames as the first loop of syncPlanning leaves it
WindowSlugs(e) == {runs[e].desired[i].name : i \in DOMAIN runs[e].desired}

\* C26: in a window of at most 1827 days (five years) two distinct dates
\* never have the same slug, so the desired-slug set has daysAhead elements
C26_NoCollision ==
    \A e \in Entries :
        (runs[e].pc = "window" /\ daysAhead <= ShortestRepeat) =>
            Cardinality(WindowSlugs(e)) = daysAhead

\* C26 as stated, for every window: the desired-slug set has daysAhead
\* elements
C26_AnyWindow ==
    \A e \in Entries :
        runs[e].pc = "window" => Cardinality(WindowSlugs(e)) = daysAhead

\* the window of 1827 days from 1 March 2027 has been computed
C26_Witness ==
    \E e \in Entries :
        /\ runs[e].pc = "window"
        /\ runs[e].today = LeapStart
        /\ Len(runs[e].desired) = ShortestRepeat
        /\ Cardinality(WindowSlugs(e)) = ShortestRepeat

\* the channel as initializePlanningChannel leaves it, with nothing added:
\* the header and one message of the bot per configured slot
FullySeeded(msgs) ==
    /\ Len(msgs) = 1 + Len(planningTimeSlots)
    /\ \A i \in DOMAIN msgs : msgs[i].author = Self

\* C27: every slot string of every reminder rule is one of the configured
\* slots the reconciler posts, and in a fully seeded channel the lookup by
\* exact equality finds, for every such slot, the message carrying it
C27_SlotsFound ==
    \A t \in RuleTypes :
        /\ Range(RuleOf(t).timeSlots) \subseteq Range(planningTimeSlots)
        /\ FullySeeded(fires[t].seen) =>
              \A s \in DOMAIN RuleOf(t).timeSlots :
                  LET m == FindSlotMessage(fires[t].fetched, fires[t].seen, RuleOf(t).timeSlots[s])
                  IN /\ m # 0
                     /\ fires[t].seen[m].content = RuleOf(t).timeSlots[s]
                     /\ (fires[t].pc = "fetchUsers" /\ fires[t].s = s) => fires[t].target = m

\* a fire has read a fully seeded channel and its loop has found the
\* message of the last relevant slot
C27_Witness ==
    \E t \in RuleTypes :
        /\ FullySeeded(fires[t].seen)
        /\ fires[t].pc = "fetchUsers"
        /\ fires[t].s = Len(RuleOf(t).timeSlots)
        /\ fires[t].seen[fires[t].target].content = "22:00 - 00:00"

\* the text channels that carry the name of the reminders channel
ReminderChannels == {c \in channels : c.type = "text" /\ c.name = TrashChannelName}

\* C28: a fire that finds no reminders channel creates it and sends the
\* reminder there: no fire returns without a reminder because the reminders
\* channel is missing, leaving the guild without that channel
C28_CreatedOnFire ==
    \A t \in RuleTypes :
        (fires[t].pc = "aborted" /\ nFails = 0) =>
            /\ fires[t].sent = 1
            /\ ReminderChannels # {}

(***************************************************************************)
(* SpecPresses: presses of the status buttons in flight together, with no  *)
(* /gym status in flight beside them; the platform serves the requests of  *)
(* one route in the order they were issued                                 *)
(***************************************************************************)
NoPublishInFlight == \A j \in Slots : inter[j].kind = "gymStatus" => InterFree(j)

\* the request of handler i is the oldest pending one of its route
InOrder(i) ==
    \A j \in Slots :
        (\/ inter[i].pc \in SendRoute /\ inter[j].pc \in SendRoute
         \/ inter[i].pc \in EditRoute /\ inter[j].pc \in EditRoute) =>
            inter[i].ticket <= inter[j].ticket

NextPresses ==
    \/ \E i \in Slots, inText \in BOOLEAN : NoActiveInter /\ GymStatusCommand(i, inText)
    \/ \E i \in Slots : StatusDeferOk(i)
    \/ \E i \in Slots, st \in Statuses, actor \in Actors :
          NoPublishInFlight /\ StatusButton(i, st, actor)
    \/ \E i \in Slots : StatusDeleteOk(i)
    \/ \E i \in Slots : StatusDeleteFail(i)
    \/ \E i \in Slots : InOrder(i) /\ StatusSendOk(i)
    \/ \E i \in Slots : InOrder(i) /\ StatusSendFail(i)
    \/ \E i \in Slots : InOrder(i) /\ StatusEditOk(i)
    \/ \E i \in Slots : InOrder(i) /\ StatusEditFail(i)
    \/ \E i \in Slots : StatusReplyOk(i)
    \/ \E i \in Slots : StatusReplyFail(i)
    \/ \E i \in Slots : StatusDeferUpdateOk(i)
    \/ \E i \in Slots : StatusDeferUpdateFail(i)
    \/ \E i \in Slots : StatusErrorReplyOk(i)

SpecPresses == InitStatus /\ [][NextPresses]_vars

\* the tracked message exists and shows the status and the last actor held
\* in memory
DisplaysMemory ==
    /\ statusMessage \in StatusIds
    /\ StatusContent(statusMessage).embed = buildEmbed(status, lastActionBy)

\* status and last actor change only by the updateStatus of a press, to the
\* pair of that press
MemoryIsLastPress ==
    (status' # status \/ lastActionBy' # lastActionBy \/ nUpdates' # nUpdates) =>
        /\ nUpdates' = nUpdates + 1
        /\ \E i \in Slots :
              /\ inter'[i].kind = "button"
              /\ inter'[i].upd = nUpdates'
              /\ inter[i].upd # nUpdates'
              /\ status' = inter'[i].payload.embed.status
              /\ lastActionBy' = inter'[i].actor

\* no handler is in flight and a press has called updateStatus
PressesDone == NoActiveInter /\ nUpdates > 0

NoErrorLogged == \A e \in log : e.level # "error"

ToDelete(e) ==
    {runs[e].snapshot[i] : i \in {x \in DOMAIN runs[e].snapshot :
        \A d \in DOMAIN runs[e].desired : runs[e].desired[d].name # runs[e].snapshot[x].name}}

Creating(e) ==
    runs[e].created # {} \/ runs[e].pc \in {"createChannel", "sendHeader", "sendSlot", "react"}

\* C30: within one run every deletion is issued and has resolved before the
\* first creation is issued: while a deletion is pending the run has created
\* nothing, and once it creates, every channel it had to delete is deleted
C30_DeletionsFirst ==
    \A e \in Entries :
        /\ runs[e].pc = "delete" => runs[e].created = {} /\ runs[e].cur = 0
        /\ (Syncing(e) /\ Creating(e)) =>
              /\ ToDelete(e) \subseteq runs[e].deleted
              /\ ToDelete(e) \cap channels = {}

\* a run that deleted a channel has issued its first creation
C30_Witness ==
    \E e \in Entries :
        /\ runs[e].pc = "createChannel"
        /\ runs[e].deleted # {}
        /\ runs[e].created = {}

Seeding == {"sendHeader", "sendSlot", "react"}

\* the planning channels that hold less than the header and every slot
PartlySeeded ==
    {c \in PlanningTexts(channels, FindCategory(channels)) :
        Len(messages[c.id]) < 1 + Len(planningTimeSlots)}

\* C31: a failure while a run seeds the channel it created leaves the
\* channel and its messages as they are (no rollback); only the run that
\* created a channel, while it is still in progress, posts or reacts in it
\* (no retry), and no run creates a channel under a name the category
\* already holds, so a partly seeded channel stays as it is
C31_PartialSeedStays ==
    [][\A c \in PlanningTexts(channels, FindCategory(channels)) :
          /\ (\E e \in Entries :
                 runs[e].cur = c.id /\ runs[e].pc \in Seeding /\ runs'[e].pc = "failed") =>
                    /\ c \in channels'
                    /\ messages'[c.id] = messages[c.id]
                    /\ \A e \in Entries : ~Active(e)'
          /\ (c \in channels' /\ messages'[c.id] # messages[c.id]) =>
                 \E e \in Entries :
                     /\ runs[e].pc \in Seeding
                     /\ runs[e].cur = c.id
                     /\ c.id \in runs[e].created
          /\ \A d \in channels' \ channels :
                 ~(d.type = "text" /\ d.parent = c.parent /\ d.name = c.name)
      ]_vars

\* a run has completed on a day whose channel an earlier run left partly
\* seeded, and the channel is as that run found it
C31_Witness ==
    \E e \in Entries, c \in PartlySeeded :
        /\ runs[e].pc = "done"
        /\ c \in runs[e].startChannels
        /\ c.name = Slug(runs[e].today)
        /\ runs[e].startMessages[c.id] = messages[c.id]
        /\ runs[e].created = {}
        /\ nFails > 0

RefreshCalls == {"pubDelete", "refDelete", "pubSend", "refSend", "refEdit"}

\* C32: the step that runs updateStatus changes the status and the last
\* actor in memory and nothing else of the status manager: no message is
\* posted, edited or deleted and the tracked reference stays; the messages
\* change only when a call of a later refresh or publish resolves
C32_UpdateInMemoryOnly ==
    [][/\ nUpdates' # nUpdates =>
             /\ UNCHANGED <<statusMessage, statusChan, statusSeq>>
             /\ \E i \in Slots :
                   /\ inter'[i].upd = nUpdates'
                   /\ status' = inter'[i].payload.embed.status
                   /\ lastActionBy' = inter'[i].actor
       /\ (statusChan' # statusChan \/ statusMessage' # statusMessage) =>
             /\ UNCHANGED <<status, lastActionBy, nUpdates>>
             /\ \E i \in Slots : inter[i].pc \in RefreshCalls /\ inter'[i].pc # inter[i].pc
      ]_vars

\* a press has updated the status in memory and its refresh is still
\* pending: the tracked message shows the former status
C32_Witness ==
    /\ statusMessage \in StatusIds
    /\ StatusContent(statusMessage).embed # buildEmbed(status, lastActionBy)
    /\ \E i \in Slots :
          /\ inter[i].upd = nUpdates /\ nUpdates > 0
          /\ inter[i].pc \in {"refEdit", "refDelete"}
          /\ inter[i].old = statusMessage

\* handler i is a press whose refresh has been issued and has not finished
Refreshing(i) ==
    /\ inter[i].kind = "button"
    /\ inter[i].pc \in {"refDelete", "refSend", "refEdit"}

\* both handlers are presses that took the same tracked message and the
\* send of each has resolved
BothReposted ==
    /\ \A i \in Slots : inter[i].kind = "button" /\ inter[i].old # 0
    /\ inter[1].old = inter[2].old
    /\ \A i \in Slots : \E n \in 1..Len(inter[i].events) : inter[i].events[n] = "sent"

\* C33: no lock keeps a second press out while the refresh of a first is
\* in flight: the second is received, and while the tracked message has
\* not been replaced it takes the same message; when both took the same
\* message and both reposted, the channel holds two status messages newer
\* than that one and tracks one of them
C33_NoLock ==
    /\ \A i \in Slots :
          (/\ Refreshing(i)
           /\ \A j \in Slots : j < i => ~InterFree(j)
           /\ \E j \in Slots : j # i /\ InterFree(j)
           /\ nInter < MaxInteractions
           /\ statusMessage # 0) =>
              \A st \in Statuses, actor \in Actors :
                  \E j \in Slots : j # i /\ ENABLED StatusButton(j, st, actor)
    /\ BothReposted =>
          /\ Cardinality({m \in statusChan : m.id > inter[1].old}) >= 2
          /\ statusMessage \in StatusIds
          /\ \E m \in statusChan : m.id # statusMessage

\* two presses overlapped with no platform failure: two status messages
\* are in the channel and one of them is tracked
C33_Witness ==
    /\ BothReposted
    /\ nFails = 0
    /\ NoActiveInter
    /\ Cardinality(statusChan) = 2
    /\ statusMessage \in StatusIds

(***************************************************************************)
(* The correlator on a long channel: members talk in today's channel       *)
(***************************************************************************)
\* how far past the fetch limit the talk of the members goes
MaxOverflow == 0

\* the numbers of messages members add to the seeded channel: from four
\* short of the limit on
ChatSizes == (FetchLimit - 4)..(FetchLimit + MaxOverflow)

ChatMessage == NewMessage("chat", <<>>, "C", <<>>)

\* members post n messages, none of them a slot, into today's channel
MemberChat(ch, n) ==
    /\ UNCHANGED svcVars
    /\ nPosts = 0
    /\ ch \in Ids(PlanningTexts(channels, FindCategory(channels)))
    /\ DayOffsetOf(ch) \in PostDays
    /\ messages' = [messages EXCEPT ![ch] = @ \o [k \in 1..n |-> ChatMessage]]
    /\ nPosts' = MaxPosts
    /\ ForgetFinished
    /\ UNCHANGED <<today, daysAhead, channels, nextId, categoryId, lastRun, timerVars,
                   channelId, trashInit, firedOn, nReacts, nFails, nAdmin, log, boot>>

InitScan ==
    /\ InitCommon
    /\ today = FirstDay
    /\ boot = "loggedIn"
    /\ daysAhead = 1
    /\ channels \in {{AssoCat},
                     {AssoCat, PlanningCat,
                      [id |-> 3, name |-> Slug(FirstDay - 1), type |-> "text", parent |-> 1]}}
    /\ messages = EmptyMessages(channels)

NextScan ==
    \/ Quiet /\ ReadyEvent
    \/ \E e \in Entries : RunStep(e)
    \/ trashInit = "idle" /\ boot = "loggedIn" /\ TrashInitialize
    \/ TrashFetchGuildOk
    \/ TrashCreateChannelOk
    \/ \E t \in RuleTypes : FireStep(t)
    \/ Quiet /\ \E u \in Accounts, ch \in DOMAIN messages :
                   \E idx \in DOMAIN messages[ch] : MemberReact(u, ch, idx)
    \/ Quiet /\ \E ch \in DOMAIN messages, n \in ChatSizes : MemberChat(ch, n)

SpecScan == InitScan /\ [][NextScan]_vars

\* message i of msgs is among the FetchLimit most recent
InWindow(msgs, i) == i > Len(msgs) - FetchLimit

HasRead(t) == fires[t].pc \in {"fetchUsers", "fetchUser", "send", "done"} /\ fires[t].planning # 0

PressReceived(i) == nInter' = nInter + 1 /\ inter'[i].seq = nInter' /\ inter'[i].kind = "button"

\* C35: a press received while no status message is tracked goes to the
\* reply of the notice and to nothing else: it leaves the status, the last
\* actor, the tracked reference and the messages of the channel as they
\* are, also in the steps in which its reply resolves or is rejected
C35_PressWithoutMessage ==
    [][\A i \in Slots :
          /\ (PressReceived(i) /\ statusMessage = 0) =>
                /\ inter'[i].pc = "replyNoMessage"
                /\ inter'[i].upd = 0
                /\ UNCHANGED statusVars
          /\ (inter[i].pc = "replyNoMessage" /\ inter'[i] # inter[i]) =>
                /\ UNCHANGED statusVars
                /\ inter'[i].upd = 0
                /\ inter'[i].pc \notin RefreshCalls \cup {"deferUpdate"}
                /\ inter'[i].replies \in {<<>>, <<"noStatusMessage">>}
      ]_vars

\* a press was received with nothing tracked and its notice went out: the
\* manager is in its initial state
C35_Witness ==
    \E i \in Slots :
        /\ inter[i].kind = "button"
        /\ inter[i].replies = <<"noStatusMessage">>
        /\ inter[i].pc = "done"
        /\ statusMessage = 0 /\ statusChan = {}
        /\ status = DefaultStatus /\ lastActionBy = NoActor

(***************************************************************************)
(* SpecRecover: reconcile runs one at a time with platform calls that      *)
(* fail, under a maintenance timer that keeps ticking                      *)
(***************************************************************************)
InitRecover ==
    /\ InitCommon
    /\ today = FirstDay
    /\ boot = "loggedIn"
    /\ daysAhead \in 1..MaxDaysAhead
    /\ channels \in {{AssoCat},
                     {AssoCat, PlanningCat,
                      [id |-> 3, name |-> Slug(FirstDay - 1), type |-> "text", parent |-> 1],
                      [id |-> 5, name |-> Slug(FirstDay + 1), type |-> "text", parent |-> 1]}}
    /\ messages = EmptyMessages(channels)

\* a tick of the maintenance schedule between two runs
Tick == NoActiveRun /\ MaintenanceFire

NextRecover ==
    \/ NoActiveRun /\ ReadyEvent
    \/ Tick
    \/ \E e \in Entries : RunStep(e)
    \/ \E e \in Entries : RunFail(e)
    \/ NoActiveRun /\ NextDay

\* the pending call of the run of entry point e resolves
Resolves(e) == Active(e) /\ runs'[e] # runs[e] /\ runs'[e].pc # "failed"

\* node-cron calls the callback of a scheduled task at every tick of its
\* expression, and a pending platform call that can succeed is not left
\* pending for ever: it resolves or it is rejected, and at most MaxFailures
\* calls are rejected. The second conjunct is weak fairness of RunStep(e)
\* written out: RunStep(e) is enabled exactly when the run has a call
\* pending whose object is still there
FairRecover ==
    /\ WF_vars(Tick)
    /\ \A e \in Entries :
          \/ []<>(~(Active(e) /\ CanSucceed(e)))
          \/ []<><<Resolves(e)>>_vars

SpecRecover == InitRecover /\ [][NextRecover]_vars /\ FairRecover

\* the run of entry point e stopped at a rejected delete: the channel is
\* still there
FailedAtDelete(e) ==
    /\ runs[e].pc = "failed"
    /\ runs[e].j = 0 /\ runs[e].i \in DOMAIN runs[e].snapshot
    /\ runs[e].snapshot[runs[e].i] \in channels

\* the run of entry point e stopped at a rejected create: no channel of the
\* slug exists
FailedAtCreate(e) ==
    /\ runs[e].pc = "failed"
    /\ runs[e].j \in DOMAIN runs[e].desired
    /\ ~ExistingChannel(channels, runs[e].category, runs[e].desired[runs[e].j].name)

\* a run has completed today and the names of the text channels under the
\* category are the desired slugs of today
Reconciled ==
    /\ \E e \in Entries : runs[e].pc = "done" /\ runs[e].today = today
    /\ FindCategory(channels) # 0
    /\ NamesUnder(channels, FindCategory(channels)) = DesiredSlugs(today)

\* C36: a rejected delete or create ends the run there: the channels stay as
\* they are, the error is logged by the entry point, and the record of the
\* run changes next when an entry point is called again; and whenever a run
\* has stopped so while the maintenance task is scheduled, a later run
\* completes with the names of the text channels under the category equal
\* to the desired slugs
C36_StopsThenRecovers ==
    /\ [][\A e \in Entries :
            /\ (runs[e].pc \in {"delete", "createChannel"} /\ runs'[e].pc = "failed") =>
                  /\ channels' = channels /\ messages' = messages
                  /\ [level |-> "error", from |-> e] \in log'
                  /\ runs'[e].deleted = runs[e].deleted /\ runs'[e].created = runs[e].created
            /\ (runs[e].pc = "failed" /\ runs'[e] # runs[e]) =>
                  /\ runs'[e].pc \in {"idle", "fetchGuild"}
                  /\ channels' = channels
         ]_vars
    /\ \A e \in Entries :
          ((FailedAtDelete(e) \/ FailedAtCreate(e)) /\ MaintenanceScheduled) ~> Reconciled

\* the tick after a rejected delete: the run of the timer completed with
\* the names reconciled, the rejection on record
C36_Witness ==
    /\ Reconciled
    /\ runs["timer"].pc = "done"
    /\ runs["timer"].deleted # {}
    /\ [level |-> "error", from |-> "timer"] \in log
    /\ nFails > 0

(***************************************************************************)
(* SpecToday: reconcile runs and reminder fires over a day change, with    *)
(* every window of at least one day and no platform failure                *)
(***************************************************************************)
InitToday ==
    /\ InitCommon
    /\ today = FirstDay
    /\ boot = "loggedIn"
    /\ daysAhead \in 1..MaxDaysAhead
    /\ channels \in {{AssoCat},
                     {AssoCat, PlanningCat,
                      [id |-> 3, name |-> Slug(FirstDay - 1), type |-> "text", parent |-> 1],
                      [id |-> 4, name |-> Slug(FirstDay), type |-> "text", parent |-> 1]}}
    /\ messages = EmptyMessages(channels)

NextToday ==
    \/ NoActiveRun /\ NoActiveFire /\ ReadyEvent
    \/ NoActiveRun /\ NoActiveFire /\ MaintenanceFire
    \/ \E e \in Entries : RunStep(e)
    \/ trashInit = "idle" /\ NoActiveRun /\ TrashInitialize
    \/ TrashFetchGuildOk
    \/ TrashCreateChannelOk
    \/ \E t \in RuleTypes : NoActiveRun /\ NoActiveFire /\ ReminderFire(t)
    \/ \E t \in RuleTypes : FireFetchGuildOk(t)
    \/ \E t \in RuleTypes : FireFetchMessagesOk(t)
    \/ \E t \in RuleTypes : FireFetchUsersOk(t)
    \/ \E t \in RuleTypes : FireSendOk(t)
    \/ NoActiveRun /\ NoActiveFire /\ NextDay

SpecToday == InitToday /\ [][NextToday]_vars

\* the name the correlator computes for a date is the reconciler's slug of
\* offset 0 on that date, for every date of the calendar covered
NamesAgree ==
    \A d \in DOMAIN SlugOf :
        /\ TargetChannelName(d) = Slug(d)
        /\ TargetChannelName(d) = DesiredChannels(d, 1)[1].name

\* the text channels under the category that carry the slug of day d
TodayChannels(d) ==
    {c \in PlanningTexts(channels, FindCategory(channels)) : c.name = Slug(d)}

\* fire t looks the planning channel up in this step
LooksUp(t) == fires[t].pc = "fetchGuild" /\ fires'[t].pc \notin {"fetchGuild", "aborted", "failed"}

\* C37: with a window of at least one day a run never issues the delete of
\* a text channel named with the slug of its day and has deleted none; the
\* correlator's channel name of a date is the reconciler's slug of offset 0
\* of that date; once a run has completed on the current day the channel of
\* the day exists, and a fire that looks it up from then on finds it
C37_TodayKept ==
    /\ [](/\ NamesAgree
          /\ \A e \in Entries :
                (Syncing(e) /\ daysAhead >= 1) =>
                    /\ \A c \in runs[e].deleted : c.name # Slug(runs[e].today)
                    /\ runs[e].pc = "delete" =>
                          runs[e].snapshot[runs[e].i].name # Slug(runs[e].today)
                    /\ \A c \in runs[e].startChannels :
                          (c.type = "text" /\ c.parent = runs[e].category
                              /\ c.name = Slug(runs[e].today)) => c \in channels
          /\ (lastRun.today = today /\ daysAhead >= 1) => TodayChannels(today) # {})
    /\ [][\A t \in RuleTypes :
            (LooksUp(t) /\ lastRun.today = today /\ daysAhead >= 1) =>
                /\ fires'[t].today = today
                /\ fires'[t].planning \in Ids(TodayChannels(today))
                /\ fires'[t].notFound = "none"
         ]_vars

\* a fire found the channel of the day, which an earlier run had created
\* and a later run of the same day had found and left in place
C37_Witness ==
    \E t \in RuleTypes, e \in Entries :
        /\ fires[t].pc = "done"
        /\ fires[t].today = lastRun.today
        /\ fires[t].planning \in Ids(TodayChannels(today))
        /\ runs[e].pc = "done" /\ runs[e].today = today
        /\ fires[t].planning \in Ids(runs[e].startChannels)
        /\ runs[e].deleted # {}

\* the accounts holding the reaction on the message the reconciler seeded
\* for the slot, when that message is among the fetched ones
OnPlaceholder(msgs, slot) ==
    {u \in Accounts : \E i \in DOMAIN msgs :
        /\ InWindow(msgs, i)
        /\ msgs[i].author = Self /\ msgs[i].content = slot
        /\ u \in msgs[i].reacts}

\* C38: for each relevant slot the message whose reactions the correlator
\* reads is the placeholder the reconciler seeded, and every member holding
\* the reaction on a fetched placeholder is among the recipients (or was
\* dropped by a failed lookup), also when a member has posted the slot text
C38_CountsPlaceholder ==
    \A t \in RuleTypes :
        /\ fires[t].pc = "fetchUsers" => fires[t].seen[fires[t].target].author = Self
        /\ Quiescent(t) =>
              \A s \in DOMAIN RuleOf(t).timeSlots :
                  OnPlaceholder(fires[t].seen, RuleOf(t).timeSlots[s]) \cap Humans
                      \subseteq Range(fires[t].users) \cup fires[t].dropped

(***************************************************************************)
(* SpecResponses: every interaction handler, /gym setup included, one      *)
(* interaction at a time; the window is empty (daysAhead = 0), so that the *)
(* run of /gym setup ends after fetchGuild and ensureCategory              *)
(***************************************************************************)
\* /gym setup: handleChatInputInteraction issues deferReply
GymSetupCommand(i) ==
    /\ CanReceive(i)
    /\ nInter' = nInter + 1
    /\ inter' = [inter EXCEPT ![i] = Received("gymSetup", NoActor, "setupDefer")]
    /\ UNCHANGED <<botVars, nFails, log, statusVars, gateVars, rulesVars>>

\* deferReply resolved: syncPlanningCommand() is called
SetupDeferOk(i) ==
    /\ inter[i].pc = "setupDefer"
    /\ inter' = [inter EXCEPT ![i].pc = "setupSync", ![i].replies = <<"defer">>]
    /\ CallEntry("setup")
    /\ UNCHANGED <<boot, statusVars, gateVars, rulesVars, nInter>>

\* syncPlanningCommand() resolved: editReply is issued
SetupSyncOk(i) ==
    /\ inter[i].pc = "setupSync"
    /\ runs["setup"].pc = "done"
    /\ inter' = [inter EXCEPT ![i].pc = "setupEdit", ![i].events = Append(@, "synced")]
    /\ UNCHANGED <<botVars, nFails, log, statusVars, gateVars, rulesVars, nInter>>

\* syncPlanningCommand() rejected: the catch of the interactionCreate
\* listener has logged the error, nothing more is sent
SetupSyncFail(i) ==
    /\ inter[i].pc = "setupSync"
    /\ runs["setup"].pc = "failed"
    /\ inter' = [inter EXCEPT ![i].pc = DispatcherCatch]
    /\ UNCHANGED <<botVars, nFails, log, statusVars, gateVars, rulesVars, nInter>>

\* editReply('Synchronisation du planning terminée.') resolved
SetupEditOk(i) ==
    /\ inter[i].pc = "setupEdit"
    /\ inter' = [inter EXCEPT ![i].pc = "done", ![i].replies = Append(@, "synced")]
    /\ UNCHANGED <<botVars, nFails, log, statusVars, gateVars, rulesVars, nInter>>

\* deferReply or editReply of /gym setup rejected: the catch of the listener
SetupReplyFail(i) ==
    /\ inter[i].pc \in {"setupDefer", "setupEdit"}
    /\ nFails < MaxFailures
    /\ nFails' = nFails + 1
    /\ log' = log \cup {[level |-> "error", from |-> "interaction"]}
    /\ inter' = [inter EXCEPT ![i].pc = DispatcherCatch]
    /\ UNCHANGED <<botVars, statusVars, gateVars, rulesVars, nInter>>

\* one member presses the buttons: the responses of a handler do not depend
\* on who pressed
NextResponses ==
    \/ \E i \in Slots, inText \in BOOLEAN : NoActiveInter /\ GymStatusCommand(i, inText)
    \/ \E i \in Slots, id \in CustomIds, inGuild \in BOOLEAN :
          NoActiveInter /\ ButtonInteraction(i, id, "alice", inGuild)
    \/ \E i \in Slots : HandlerStep(i)
    \/ \E i \in Slots : HandlerFail(i)
    \/ \E i \in Slots : NoActiveInter /\ GymSetupCommand(i)
    \/ \E i \in Slots : SetupDeferOk(i)
    \/ FetchGuildOk("setup")
    \/ CreateCategoryOk("setup")
    \/ RunFail("setup")
    \/ \E i \in Slots : SetupSyncOk(i)
    \/ \E i \in Slots : SetupSyncFail(i)
    \/ \E i \in Slots : SetupEditOk(i)
    \/ \E i \in Slots : SetupReplyFail(i)

SpecResponses == InitDispatch /\ [][NextResponses]_vars

InitialResponses == {"reply", "deferReply", "deferUpdate"}

LaterResponses == {"editReply", "followUp"}

\* every pending response is sent with reply
AlwaysReply(h) ==
    IF h.pc \in StatusReplies \cup GateEarlyReplies \cup RulesReplies
                \cup {"defer", "deferUpdate", "errReply", "gateDefer", "gateSummary",
                      "rulesDefer", "setupDefer", "setupEdit"}
    THEN "reply" ELSE "none"

\* the method of the interaction that handler h has pending at its position
ResponseMethod(h) ==
    CASE h.pc \in {"replyUnavailable", "replyNoMessage", "gateReplyUnavailable",
                   "gateReplyNoNumbers", "rulesReplyNoGuild", "rulesReplyAdmin"} -> "reply"
      [] h.pc \in {"defer", "gateDefer", "rulesDefer", "setupDefer"} -> "deferReply"
      [] h.pc = "deferUpdate" -> "deferUpdate"
      [] h.pc \in {"pubReply", "gateSummary", "rulesThanks", "rulesError", "setupEdit"} -> "editReply"
      \* if (interaction.replied || interaction.deferred) followUp else reply
      [] h.pc \in {"btnReply", "errReply"} -> IF h.replies # <<>> THEN "followUp" ELSE "reply"
      [] OTHER -> "none"

\* C39: whenever a handler has reply, deferReply or deferUpdate pending, the
\* interaction has received no response yet; whenever it has editReply or
\* followUp pending, the interaction has been deferred; no interaction
\* receives more than two responses, and a second one follows a deferral
C39_OneInitialResponse ==
    \A i \in Slots :
        LET h == inter[i]
        IN /\ ResponseMethod(h) \in InitialResponses => h.replies = <<>>
           /\ ResponseMethod(h) \in LaterResponses =>
                 Len(h.replies) = 1 /\ h.replies[1] \in {"defer", "deferUpdate"}
           /\ Len(h.replies) <= 2
           /\ Len(h.replies) = 2 => h.replies[1] = "defer"

\* after a press whose rejected first response went through the catch of
\* the compiled updateGymStatus, a /gym setup was deferred and then edited
C39_Witness ==
    \E i \in Slots :
        /\ inter[i].kind = "gymSetup"
        /\ inter[i].pc = "done"
        /\ inter[i].replies = <<"defer", "synced">>
        /\ [level |-> "error", from |-> "updateGymStatus"] \in log

====
